---- MODULE Spec2Model ----
(***************************************************************************)
(* Deep Claw Analytics: relay listener (event router), webhook sender,     *)
(* webhook configuration endpoint and the events API, over one shared      *)
(* relational store.  Every `await db.query(...)` of the source is one     *)
(* atomic store step; asynchronous event handlers interleave between them. *)
(* The HTTP surface (authenticate, rateLimit), the insight cache with the   *)
(* timing aggregator, and the zone computation follow.                      *)
(***************************************************************************)
EXTENDS Integers, Sequences, FiniteSets, TLC

\* ------------------------------------------------------------------ bounds
MaxDeliveries == 2      \* event deliveries (handler invocations) in one run
MaxRotations == 1       \* successful PUT /auth/webhook calls in one run
MaxAckId == 2           \* largest event row id a client names in eventIds
MaxFailures == 1        \* store queries that may throw in one run
Now == 3                \* wall clock (seconds) of the run
DayLen == 2             \* length of "24 hours" on the model's clock
MaxRequests == 3        \* HTTP requests through the middleware in one run
MaxCalls == 3           \* analytics / admin requests in one run
MaxScans == 1           \* full scans in one run
MaxRegistrations == 2   \* POST /auth/register calls in one run
QueryTimeout == 2       \* timeoutMs of a relay query, in ticks
MaxMessages == 2        \* messages one relay sends on one socket
MaxDays == 1              \* days that pass in one run
MaxReloads == 2          \* periodic reloads of the tenant set in one run
MaxRescans == 2         \* full scans in a run of the scanner alone
MaxBase == 2            \* largest background count of a generated distribution
MaxPeakWidth == 3       \* widest block of raised hours of a generated distribution
MaxClock == 2           \* hours the wall clock advances in one run
FreeLimit == 2          \* FREE_TIER_RATE_LIMIT of the run (default 100)
PremiumLimit == 3       \* PREMIUM_TIER_RATE_LIMIT of the run (default 1000)

\* config.webhooks.retryCount
retryCount == 3

\* ------------------------------------------------------------ the tenants
Tenants == {1, 2}

\* protocol keys: hex pubkey of a tenant, its bech32 (npub) form
HexOf(t) == IF t = 1 THEN "P1" ELSE "P2"
Npub(hex) == <<"npub", hex>>

\* nip19.decode(npub).data, null when the npub does not decode
npubToHex(npub) ==
  IF Len(npub) = 2 /\ npub[1] = "npub" THEN npub[2] ELSE "null"

Urls == {"u0", "u1"}
Secrets == {"s0", "s1"}

\* ---------------------------------------------------- events on the relays
KindText == 1
KindContacts == 3
KindZap == 9735

Catalog ==
  [ m1 |-> [id |-> "m1", kind |-> KindText, pubkey |-> "A", created_at |-> 1,
            content |-> "hi",
            tags |-> << <<"p", "P1">>, <<"p", "P2">> >>],
    m2 |-> [id |-> "m2", kind |-> KindText, pubkey |-> "B", created_at |-> 2,
            content |-> "yo",
            tags |-> << <<"p", "P2">>, <<"e", "x">>, <<"p", "P2">> >>],
    z1 |-> [id |-> "z1", kind |-> KindZap, pubkey |-> "A", created_at |-> 1,
            content |-> "",
            tags |-> << <<"bolt11", "lnbc">>, <<"p", "P2">>, <<"p", "P1">> >>],
    f1 |-> [id |-> "f1", kind |-> KindContacts, pubkey |-> "F", created_at |-> 1,
            content |-> "",
            tags |-> << <<"p", "P1">>, <<"p", "Q">> >>],
    f2 |-> [id |-> "f2", kind |-> KindContacts, pubkey |-> "F", created_at |-> 2,
            content |-> "",
            tags |-> << <<"p", "Q">>, <<"p", "P1">> >>],
    \* a note whose tags name no key: a tag without a value, an empty key
    x1 |-> [id |-> "x1", kind |-> KindText, pubkey |-> "A", created_at |-> 2,
            content |-> "", tags |-> << <<"e">>, <<"p", "">>, <<"p", "P3">> >>],
    \* a note created more than seven days before the listener runs
    o1 |-> [id |-> "o1", kind |-> KindText, pubkey |-> "B",
            created_at |-> Now - 7 * DayLen - 1,
            content |-> "old", tags |-> << <<"p", "P1">> >>],
    \* a zap receipt without an invoice
    z2 |-> [id |-> "z2", kind |-> KindZap, pubkey |-> "B", created_at |-> 2,
            content |-> "", tags |-> << <<"p", "P1">> >>],
    \* a zap receipt that encloses an invoice over 10 micro-bitcoin
    z3 |-> [id |-> "z3", kind |-> KindZap, pubkey |-> "A", created_at |-> 2,
            content |-> "ty",
            tags |-> << <<"bolt11", "lnbc10u1p">>, <<"p", "P1">> >>] ]

\* the events of the everyday traffic
EventNames == {"m1", "m2", "z1", "f1", "f2"}

VARIABLES
  users,         \* users table: id -> [webhook_url, webhook_secret]
  userNpubs,     \* listener's in-memory map npub -> user id
  events,        \* events table (set of rows)
  nextEventId,   \* events.id SERIAL
  engagers,      \* engagers table: <<user_id, engager_npub>> -> interactions
  followers,     \* followers table: set of <<user_id, follower_npub>>
  webhook_logs,  \* webhook_logs table (set of rows)
  handlers,      \* event handler invocations of the listener
  http,          \* HTTP requests that left the sender
  results,       \* return values of finished sendWebhook calls
  cfgHist,       \* per tenant: every (url, secret) the users row has held
  rotations,     \* successful webhook updates so far
  ackReq,        \* the acknowledge request in progress
  lastResp,      \* the latest API response
  engaged,       \* (user_id, event_id) for which the engagers upsert ran
  failures,      \* store queries that have thrown
  clock,         \* wall clock, in whole hours (NOW(), Date.now())
  api_tokens,    \* api_tokens table: token -> [user_id, revoked, expires_at]
  api_usage,     \* api_usage table: <<user_id, endpoint, window_start>> -> count
  reqs,          \* HTTP requests going through authenticate and rateLimit
  insights,      \* insights table: <<user_id, insight_type, period>> -> row
  post_activity, \* post_activity table (set of rows)
  nextPostId,    \* post_activity.id SERIAL
  following,     \* following table: set of <<user_id, following_npub>>
  network_activity, \* <<user_id, activity_type, hour_gmt, window_date>> -> count
  calls,         \* analytics and admin handlers in progress
  lastRun,       \* per tenant and kind: the latest aggregation query
  scans,         \* full scans started so far
  hourly,        \* a 24-bucket hourly distribution handed to the zone code
  zone,          \* what calculateMaxParticipationZone returned for it
  activityData,  \* the follower and engagement distributions of a tenant
  posting,       \* what getBestPostingTimes returned for them
  listener,      \* the relay listener: its subscriptions and its reloads
  accounts,      \* the users table as POST /auth/register sees it
  fetch,         \* fetchUserPosts: the relay query in flight and the posts so far
  subs           \* the listener's subscription handles and its loads in flight

vars == <<users, userNpubs, events, nextEventId, engagers, followers,
          webhook_logs, handlers, http, results, cfgHist, rotations,
          ackReq, lastResp, engaged, failures,
          clock, api_tokens, api_usage, reqs,
          insights, post_activity, nextPostId, following, network_activity,
          calls, lastRun, scans, hourly, zone, activityData, posting, listener,
          accounts, fetch, subs>>

\* the listener, the sender and the events API
pipelineVars == <<users, userNpubs, events, nextEventId, engagers, followers,
                  webhook_logs, handlers, http, results, cfgHist, rotations,
                  ackReq, lastResp, engaged, failures>>
\* the HTTP surface
gateVars == <<clock, api_tokens, api_usage, reqs>>
\* the insight cache, the timing aggregator and the scanner
cacheVars == <<insights, post_activity, nextPostId, following,
               network_activity, calls, lastRun, scans>>
\* the zone computation
zoneVars == <<hourly, zone>>
\* the recommendations
bestVars == <<activityData, posting>>
\* the listener's subscriptions
listenerVars == <<listener>>
\* registration
lateVars == <<accounts, fetch, subs>>
surfaceVars == <<gateVars, cacheVars, zoneVars, bestVars, listenerVars, lateVars>>
\* what the middleware, the analytics handlers and the zone code leave alone
offGate == <<pipelineVars, cacheVars, zoneVars, bestVars, listenerVars, lateVars>>
offCache == <<pipelineVars, api_tokens, api_usage, reqs, zoneVars, bestVars,
              listenerVars, lateVars>>
offZone == <<pipelineVars, gateVars, cacheVars, bestVars, listenerVars, lateVars>>
offBest == <<pipelineVars, gateVars, cacheVars, zoneVars, listenerVars, lateVars>>
\* everything but registration and the relay queries
earlyVars == <<pipelineVars, gateVars, cacheVars, zoneVars, bestVars, listenerVars>>
offAccounts == <<earlyVars, fetch, subs>>
offFetch == <<earlyVars, accounts, subs>>

storeVars == <<events, nextEventId, engagers, followers, webhook_logs, engaged>>
apiVars == <<users, cfgHist, rotations, ackReq, lastResp, failures>>

HandlerIds == 1..MaxDeliveries

NoCfg == [webhook_url |-> "", webhook_secret |-> ""]
NoResp == [status |-> 0, err |-> ""]

NoAck == [pc |-> "idle", user |-> 0, ids |-> {}, changed |-> {}]
NoApiResp ==
  [op |-> "", user |-> 0, status |-> 0, ids |-> {}, acknowledged |-> 0,
   remaining |-> 0, returned |-> {}, ackedBefore |-> {}, unackedMatch |-> {}]

IdleHandler ==
  [pc |-> "idle", ev |-> "m1", ti |-> 0, uid |-> 0, eventType |-> "",
   payload |-> <<>>, cfg |-> NoCfg, sig |-> <<>>, body |-> <<>>,
   resp |-> NoResp, startVer |-> 0, total |-> 0]


\* ------------------------------------------------------- JSON and signing
\* JSON.stringify of an object given as its <<key, value>> members in
\* insertion order: the members' text in that order
RECURSIVE Stringify(_)
Stringify(obj) ==
  IF obj = <<>> THEN <<>>
  ELSE <<Head(obj)[1], Head(obj)[2]>> \o Stringify(Tail(obj))

\* crypto.createHmac('sha256', secret).update(bytes).digest('hex'): the
\* digest is determined by, and determines, the key and the bytes
Hmac(secret, bytes) == <<"hmac-sha256", secret, bytes>>

\* signing the type-specific payload, without the event_type and timestamp
\* members that the body carries
signPayloadBare(payload, secret) ==
  Hmac(secret, Stringify(SubSeq(payload, 3, Len(payload))))

signPayload(payload, secret) == Hmac(secret, Stringify(payload))

\* JSON.parse of such a text: the members back in their order
RECURSIVE Parse(_)
Parse(text) ==
  IF Len(text) < 2 THEN <<>>
  ELSE << <<text[1], text[2]>> >> \o Parse(SubSeq(text, 3, Len(text)))

\* auth.js verifySignature(payload, signature, secret): timingSafeEqual of
\* the signature and the digest of the re-serialised payload
verifySignature(payload, signature, secret) ==
  signature = Hmac(secret, Stringify(payload))

\* { event_type, timestamp, ...payload }
FullPayload(eventType, payload) ==
  << <<"event_type", eventType>>, <<"timestamp", Now>> >> \o payload

MentionPayload(ev) ==
  << <<"author", <<ev.pubkey, "...">> >>, <<"content", ev.content>>,
     <<"note_id", ev.id>>, <<"created_at", ev.created_at>> >>

FollowerPayload(ev, total) ==
  << <<"follower", <<ev.pubkey, "...">> >>, <<"total_followers", total>> >>

ZapPayload(ev, amountSats) ==
  << <<"from", <<ev.pubkey, "...">> >>, <<"amount_sats", amountSats>>,
     <<"message", ev.content>>, <<"note_id", ev.id>> >>

\* ------------------------------------------------------ listener: routing
\* the tenant a tag names: tag[0] === 'p' and some registered npub decodes
\* to tag[1]; 0 when the tag names no tenant
TargetAt(ev, i) ==
  LET tag == ev.tags[i]
      hit == {n \in DOMAIN userNpubs : npubToHex(n) = tag[2]}
  IN IF tag[1] = "p" /\ hit # {} THEN userNpubs[CHOOSE n \in hit : TRUE] ELSE 0

\* processFollow up to its first query: the tenant's own key is among the
\* p-tags of the contact list
IsFollowing(ev, uid) ==
  LET mine == {n \in DOMAIN userNpubs : userNpubs[n] = uid}
      userHexPubkey == IF mine = {} THEN "null"
                       ELSE npubToHex(CHOOSE n \in mine : TRUE)
  IN /\ userHexPubkey # "null"
     /\ \E j \in 1..Len(ev.tags) :
          ev.tags[j][1] = "p" /\ ev.tags[j][2] = userHexPubkey

Fresh(rec) == [IdleHandler EXCEPT !.ev = rec.ev]

\* the `for (const tag of event.tags)` loop of a subscription's event
\* callback, resumed at tag i, run up to its next await
RECURSIVE Resume(_, _)
Resume(rec, i) ==
  LET ev == Catalog[rec.ev] IN
  IF i > Len(ev.tags) THEN [Fresh(rec) EXCEPT !.pc = "done", !.ti = i]
  ELSE LET uid == TargetAt(ev, i) IN
    IF uid = 0 THEN Resume(rec, i + 1)
    ELSE IF ev.kind = KindText
      THEN [Fresh(rec) EXCEPT !.pc = "m_check", !.ti = i, !.uid = uid]
    ELSE IF ev.kind = KindZap
      THEN [Fresh(rec) EXCEPT !.pc = "z_insert", !.ti = i, !.uid = uid]
    ELSE IF IsFollowing(ev, uid)
      THEN [Fresh(rec) EXCEPT !.pc = "f_check", !.ti = i, !.uid = uid]
    ELSE Resume(rec, i + 1)

\* sendWebhook(userId, eventType, payload) is entered
CallSendWebhook(rec, eventType, payload) ==
  [rec EXCEPT !.pc = "wh_read", !.eventType = eventType, !.payload = payload,
              !.startVer = Len(cfgHist[rec.uid])]

EventRow(id, uid, ev, eventType) ==
  [id |-> id, user_id |-> uid, event_id |-> ev.id, event_type |-> eventType,
   author_npub |-> ev.pubkey, content |-> ev.content,
   created_at |-> ev.created_at, processed |-> FALSE, acknowledged |-> FALSE]

\* events.event_id TEXT UNIQUE
EventIdTaken(eventId) == \E r \in events : r.event_id = eventId

\* a lookup keyed on the tenant's own key instead of the follower's: it finds
\* no row
FollowerTakenWrongKey(uid, npub) == <<uid, HexOf(uid)>> \in followers

\* followers UNIQUE(user_id, follower_npub), and the SELECT on the same key
FollowerTaken(uid, npub) == <<uid, npub>> \in followers

\* ------------------------------------------------------ the HTTP surface
RequestIds == 1..MaxRequests

\* users.api_token, set by POST /auth/register: 'dc_' + 32 random bytes
RegToken(t) == IF t = 1 THEN "dc_r1" ELSE "dc_r2"

\* users.tier (DEFAULT 'free')
TierOf(t) == IF t = 1 THEN "free" ELSE "premium"

\* api_tokens.expires_at IS NULL
NoExpiry == -1

\* rows of api_tokens, as the token script writes them: dc_<random>_<checksum>;
\* the second one was given an expires_at of hour 1
IssuedTokens ==
  ("dc_a_c" :> [user_id |-> 1, revoked |-> FALSE, expires_at |-> NoExpiry])
  @@ ("dc_b_c" :> [user_id |-> 2, revoked |-> FALSE, expires_at |-> 1])

\* a token no table holds
UnknownToken == "dc_zz"

\* Authorization header values: none, another scheme, Bearer <token>
NoHeader == <<>>
AuthHeaders ==
  {NoHeader, <<"Basic", RegToken(1)>>}
    \cup {<<"Bearer", k>> : k \in DOMAIN IssuedTokens
                                    \cup {RegToken(t) : t \in Tenants}
                                    \cup {UnknownToken}}

\* response headers set by rateLimit
NoRateHeaders == [set |-> FALSE, limit |-> 0, remaining |-> 0, reset |-> 0]
\* JSON body of the 429 answer
NoRateBody == [limit |-> 0, remaining |-> 0, resetAt |-> 0]

IdleReq ==
  [pc |-> "idle", header |-> NoHeader, endpoint |-> "", token |-> "",
   user |-> 0, tier |-> "", status |-> 0, ran |-> FALSE,
   windowStart |-> 0, currentUsage |-> 0, counted |-> 0,
   headers |-> NoRateHeaders, body |-> NoRateBody,
   revokedAtArrival |-> FALSE, failedAt |-> ""]

\* ------------------------------------------- analytics: cache and timing
CallIds == 1..MaxCalls

\* hour_gmt CHECK (hour_gmt >= 0 AND hour_gmt < 24)
Hours == 0..23

NoRow == [present |-> FALSE, data |-> <<>>, expires_at |-> 0]

IdleCall ==
  [pc |-> "idle", op |-> "", user |-> 0, type |-> "", period |-> "",
   status |-> 0, cached |-> FALSE, data |-> <<>>, todo |-> <<>>,
   readAt |-> 0, rowAtRead |-> NoRow, since |-> 0, insightsLeft |-> {},
   npub |-> <<>>, followed |-> <<>>]

\* no aggregation query has run yet for a (tenant, kind)
NoRun == [ran |-> FALSE, since |-> 0, upto |-> 0]
ActivityTypes == {"follower_post", "following_post", "engagement"}

\* zone not computed yet for the current distribution
NotComputed == [computed |-> FALSE]

\* SELECT id, npub FROM users, as userNpubs.set(user.npub, user.id) stores it
LoadedUsers ==
  [n \in {Npub(HexOf(t)) : t \in DOMAIN users} |->
     CHOOSE t \in DOMAIN users : HexOf(t) = n[2]]

\* npubs.map(npubToHex).filter(Boolean): the '#p' filter of the subscriptions
Pubkeys(map) == {npubToHex(n) : n \in DOMAIN map} \ {"null"}

\* the listener once start() has subscribed for the registered tenants;
\* received: the events delivered since the latest reload
StartedListener ==
  [pubkeys |-> Pubkeys(LoadedUsers), opened |-> 1, reloads |-> 0, failed |-> 0,
   lastFailed |-> FALSE, running |-> TRUE, received |-> {}]

\* SELECT id, npub FROM users
IdAndNpub(rows) == {[id |-> r.id, npub |-> r.npub] : r \in rows}

\* userNpubs.clear(); rows.forEach(user => userNpubs.set(user.npub, user.id))
MapOf(rows) ==
  [n \in {r.npub : r \in rows} |-> (CHOOSE r \in rows : r.npub = n).id]

SubKinds == {"mention", "contacts", "zap"}

\* pool.sub three times: handles id + 1 .. id + 3 of load i
NewSubscriptions(id, pubkeys, i) ==
  {[id |-> id + 1, kind |-> "mention", pubkeys |-> pubkeys, load |-> i],
   [id |-> id + 2, kind |-> "contacts", pubkeys |-> pubkeys, load |-> i],
   [id |-> id + 3, kind |-> "zap", pubkeys |-> pubkeys, load |-> i]}

\* the subscriptions once the load of start() has come back with the rows:
\* loads[i] is the i-th call of loadUsers, mapLoad the one that wrote userNpubs
StartedSubs(rows) ==
  LET pubkeys == Pubkeys(MapOf(rows)) IN
  [activeSubscriptions |-> IF pubkeys = {} THEN {}
                           ELSE NewSubscriptions(0, pubkeys, 1),
   created |-> IF pubkeys = {} THEN 0 ELSE 3,
   unsubbed |-> {},
   loads |-> <<[pc |-> "done", ok |-> TRUE, rows |-> rows]>>,
   mapLoad |-> 1]

\* fetchUserPosts before its first relay query
IdleFetch ==
  [relay |-> 0, socket |-> "none", resolved |-> FALSE, resolves |-> 0,
   timer |-> FALSE, elapsed |-> 0, resolvedAt |-> 0,
   received |-> 0, events |-> <<>>, result |-> <<>>, consumed |-> TRUE,
   allPosts |-> <<>>, returned |-> FALSE, outcomes |-> <<>>]

\* the rows of the users table after the two tenants registered, the last
\* answer of POST /auth/register and the number of calls
RegisteredAccounts ==
  [rows |-> {[id |-> t, npub |-> Npub(HexOf(t)), webhook_url |-> "u0",
              webhook_secret |-> "s0", api_token |-> RegToken(t)] : t \in Tenants},
   calls |-> 0,
   resp |-> [status |-> 0, npub |-> <<>>, api_token |-> "", webhook_secret |-> ""]]

\* everything but the users the listener starts on
InitStore ==
  /\ users = [t \in Tenants |-> [webhook_url |-> "u0", webhook_secret |-> "s0"]]
  /\ events = {}
  /\ nextEventId = 1
  /\ engagers = [k \in {} |-> 0]
  /\ followers = {}
  /\ webhook_logs = {}
  /\ handlers = [h \in HandlerIds |-> IdleHandler]
  /\ http = {}
  /\ results = {}
  /\ cfgHist = [t \in Tenants |-> <<users[t]>>]
  /\ rotations = 0
  /\ ackReq = NoAck
  /\ lastResp = NoApiResp
  /\ engaged = {}
  /\ failures = 0
  /\ clock = 0
  /\ api_tokens = IssuedTokens
  /\ api_usage = [k \in {} |-> 0]
  /\ reqs = [i \in RequestIds |-> IdleReq]
  /\ insights = [k \in {} |-> NoRow]
  /\ post_activity = {}
  /\ nextPostId = 1
  /\ following = {}
  /\ network_activity = [k \in {} |-> 0]
  /\ calls = [c \in CallIds |-> IdleCall]
  /\ lastRun = [k \in Tenants \X ActivityTypes |-> NoRun]
  /\ scans = 0
  /\ hourly = [h \in Hours |-> 0]
  /\ zone = NotComputed
  /\ activityData = [followers |-> [h \in Hours |-> 0], engagement |-> [h \in Hours |-> 0]]
  /\ posting = NotComputed
  /\ fetch = IdleFetch

\* start() has run on a users table that holds the two tenants
Init ==
  /\ InitStore
  /\ userNpubs = MapOf(IdAndNpub(RegisteredAccounts.rows))
  /\ listener = StartedListener
  /\ accounts = RegisteredAccounts
  /\ subs = StartedSubs(IdAndNpub(RegisteredAccounts.rows))

\* start() has run on an empty users table: 'No users to monitor. Waiting...'
InitFresh ==
  /\ InitStore
  /\ userNpubs = MapOf({})
  /\ listener = [StartedListener EXCEPT !.pubkeys = {}, !.opened = 0]
  /\ accounts = [RegisteredAccounts EXCEPT !.rows = {}]
  /\ subs = StartedSubs({})

\* a relay delivers an event of the catalog to the subscription of its kind
Deliver(h, e) ==
  /\ handlers[h].pc = "idle"
  /\ \A g \in HandlerIds : g < h => handlers[g].pc # "idle"
  /\ handlers' = [handlers EXCEPT ![h] = Resume([IdleHandler EXCEPT !.ev = e], 1)]
  /\ UNCHANGED <<surfaceVars, storeVars, apiVars, userNpubs, http, results>>

\* a relay delivers the next event once the callbacks of the earlier ones have
\* returned
DeliverNext(h, e) ==
  /\ \A g \in HandlerIds : handlers[g].pc \in {"idle", "done"}
  /\ Deliver(h, e)

\* processMention: SELECT id FROM events WHERE event_id = $1
MentionCheck(h) ==
  LET rec == handlers[h] IN
  /\ rec.pc = "m_check"
  /\ handlers' = [handlers EXCEPT ![h] =
       IF EventIdTaken(Catalog[rec.ev].id) THEN Resume(rec, rec.ti + 1)
       ELSE [rec EXCEPT !.pc = "m_insert"]]
  /\ UNCHANGED <<surfaceVars, storeVars, apiVars, userNpubs, http, results>>

\* processMention: INSERT INTO events; a unique violation is caught and ends
\* processMention
MentionInsert(h) ==
  LET rec == handlers[h]
      ev == Catalog[rec.ev] IN
  /\ rec.pc = "m_insert"
  /\ IF EventIdTaken(ev.id)
     THEN /\ handlers' = [handlers EXCEPT ![h] = Resume(rec, rec.ti + 1)]
          /\ UNCHANGED <<events, nextEventId>>
     ELSE /\ events' = events \cup {EventRow(nextEventId, rec.uid, ev, "mention")}
          /\ nextEventId' = nextEventId + 1
          /\ handlers' = [handlers EXCEPT ![h] = [rec EXCEPT !.pc = "m_engager"]]
  /\ UNCHANGED <<surfaceVars, engagers, followers, webhook_logs, engaged, apiVars,
                 userNpubs, http, results>>

\* processMention: INSERT INTO engagers ... ON CONFLICT DO UPDATE, then
\* sendMentionWebhook
MentionEngager(h) ==
  LET rec == handlers[h]
      ev == Catalog[rec.ev]
      k == <<rec.uid, ev.pubkey>> IN
  /\ rec.pc = "m_engager"
  /\ engagers' = IF k \in DOMAIN engagers
                 THEN [engagers EXCEPT ![k] = @ + 1]
                 ELSE [x \in DOMAIN engagers \cup {k} |->
                         IF x = k THEN 1 ELSE engagers[x]]
  /\ engaged' = engaged \cup {<<rec.uid, ev.id>>}
  /\ handlers' = [handlers EXCEPT ![h] =
                    CallSendWebhook(rec, "mention", MentionPayload(ev))]
  /\ UNCHANGED <<surfaceVars, events, nextEventId, followers, webhook_logs, apiVars,
                 userNpubs, http, results>>


\* processZap: INSERT INTO events (no prior SELECT), then sendZapWebhook with
\* satsAmount = 0
ZapInsert(h) ==
  LET rec == handlers[h]
      ev == Catalog[rec.ev] IN
  /\ rec.pc = "z_insert"
  /\ IF EventIdTaken(ev.id)
     THEN /\ handlers' = [handlers EXCEPT ![h] = Resume(rec, rec.ti + 1)]
          /\ UNCHANGED <<events, nextEventId>>
     ELSE /\ events' = events \cup {EventRow(nextEventId, rec.uid, ev, "zap")}
          /\ nextEventId' = nextEventId + 1
          /\ handlers' = [handlers EXCEPT ![h] =
                            CallSendWebhook(rec, "zap", ZapPayload(ev, 0))]
  /\ UNCHANGED <<surfaceVars, engagers, followers, webhook_logs, engaged, apiVars,
                 userNpubs, http, results>>

\* processFollow: SELECT id FROM followers WHERE user_id = $1 AND follower_npub = $2
FollowCheck(h) ==
  LET rec == handlers[h] IN
  /\ rec.pc = "f_check"
  /\ handlers' = [handlers EXCEPT ![h] =
       IF FollowerTaken(rec.uid, Catalog[rec.ev].pubkey)
       THEN Resume(rec, rec.ti + 1)
       ELSE [rec EXCEPT !.pc = "f_insert"]]
  /\ UNCHANGED <<surfaceVars, storeVars, apiVars, userNpubs, http, results>>

\* processFollow: INSERT INTO followers; a unique violation is caught
FollowInsert(h) ==
  LET rec == handlers[h]
      ev == Catalog[rec.ev] IN
  /\ rec.pc = "f_insert"
  /\ IF FollowerTaken(rec.uid, ev.pubkey)
     THEN /\ handlers' = [handlers EXCEPT ![h] = Resume(rec, rec.ti + 1)]
          /\ UNCHANGED followers
     ELSE /\ followers' = followers \cup {<<rec.uid, ev.pubkey>>}
          /\ handlers' = [handlers EXCEPT ![h] = [rec EXCEPT !.pc = "f_count"]]
  /\ UNCHANGED <<surfaceVars, events, nextEventId, engagers, webhook_logs, engaged, apiVars,
                 userNpubs, http, results>>

\* sendFollowerWebhook: SELECT COUNT(*) FROM followers WHERE user_id = $1,
\* then sendWebhook
FollowCount(h) ==
  LET rec == handlers[h]
      total == Cardinality({f \in followers : f[1] = rec.uid}) IN
  /\ rec.pc = "f_count"
  /\ handlers' = [handlers EXCEPT ![h] =
       CallSendWebhook(rec, "new_follower",
                       FollowerPayload(Catalog[rec.ev], total))]
  /\ UNCHANGED <<surfaceVars, storeVars, apiVars, userNpubs, http, results>>

\* ---------------------------------------------------------- webhook sender
AttemptKey(h) == <<h, handlers[h].ti>>

\* the URL read from the store, the secret kept from the first read
ReadWebhookConfigCachedSecret(uid) ==
  [webhook_url |-> users[uid].webhook_url,
   webhook_secret |-> cfgHist[uid][1].webhook_secret]

\* sendWebhook: SELECT webhook_url, webhook_secret FROM users WHERE id = $1
ReadWebhookConfig(uid) == users[uid]

\* sendWebhook up to the fetch: read the config, build and sign the body
WebhookRead(h) ==
  LET rec == handlers[h] IN
  /\ rec.pc = "wh_read"
  /\ IF rec.uid \notin DOMAIN users
     THEN /\ results' = results \cup {[key |-> AttemptKey(h), ret |-> FALSE]}
          /\ handlers' = [handlers EXCEPT ![h] = Resume(rec, rec.ti + 1)]
     ELSE LET cfg == ReadWebhookConfig(rec.uid)
              fullPayload == FullPayload(rec.eventType, rec.payload) IN
          /\ handlers' = [handlers EXCEPT ![h] =
               [rec EXCEPT !.pc = "wh_fetch", !.cfg = cfg,
                           !.sig = signPayload(fullPayload, cfg.webhook_secret),
                           !.body = Stringify(fullPayload)]]
          /\ UNCHANGED results
  /\ UNCHANGED <<surfaceVars, storeVars, apiVars, userNpubs, http>>

\* what the receiver (or the network) does with one POST
Outcomes ==
  { [status |-> 200, err |-> ""],
    [status |-> 500, err |-> ""],
    [status |-> 0,   err |-> "fetch failed"],
    [status |-> 0,   err |-> "timeout"] }

\* any answer at all counted as a success
ResponseOkLoose(status) == status >= 200

\* Response.ok of fetch
ResponseOk(status) == status >= 200 /\ status <= 299

\* sendWebhook: await fetch(webhook_url, {headers, body, signal})
WebhookFetch(h, out) ==
  LET rec == handlers[h] IN
  /\ rec.pc = "wh_fetch"
  /\ http' = http \cup
       {[key |-> AttemptKey(h), user |-> rec.uid, url |-> rec.cfg.webhook_url,
         signature |-> rec.sig, body |-> rec.body,
         secret |-> rec.cfg.webhook_secret, startVer |-> rec.startVer,
         eventType |-> rec.eventType, resp |-> out]}
  /\ handlers' = [handlers EXCEPT ![h] =
       [rec EXCEPT !.pc = IF out.err = "" THEN "wh_log" ELSE "wh_logerr",
                   !.resp = out]]
  /\ UNCHANGED <<surfaceVars, storeVars, apiVars, userNpubs, results>>

LogRow(h, payloadText, status, code, msg) ==
  [key |-> AttemptKey(h),
   n |-> Cardinality({l \in webhook_logs : l.key = AttemptKey(h)}),
   user_id |-> handlers[h].uid, event_type |-> handlers[h].eventType,
   payload |-> payloadText, status |-> status, response_code |-> code,
   error_message |-> msg]

\* sendWebhook: INSERT INTO webhook_logs after a response, return response.ok
WebhookLog(h) ==
  LET rec == handlers[h] IN
  /\ rec.pc = "wh_log"
  /\ webhook_logs' = webhook_logs \cup
       {LogRow(h, rec.body,
               IF ResponseOk(rec.resp.status) THEN "sent" ELSE "failed",
               rec.resp.status, "")}
  /\ results' = results \cup
       {[key |-> AttemptKey(h), ret |-> ResponseOk(rec.resp.status)]}
  /\ handlers' = [handlers EXCEPT ![h] = Resume(rec, rec.ti + 1)]
  /\ UNCHANGED <<surfaceVars, events, nextEventId, engagers, followers, engaged, apiVars,
                 userNpubs, http>>

\* sendWebhook's catch: INSERT INTO webhook_logs (..., 'failed', error.message),
\* return false
WebhookLogErr(h) ==
  LET rec == handlers[h] IN
  /\ rec.pc = "wh_logerr"
  /\ webhook_logs' = webhook_logs \cup
       {LogRow(h, Stringify(rec.payload), "failed", 0, rec.resp.err)}
  /\ results' = results \cup {[key |-> AttemptKey(h), ret |-> FALSE]}
  /\ handlers' = [handlers EXCEPT ![h] = Resume(rec, rec.ti + 1)]
  /\ UNCHANGED <<surfaceVars, events, nextEventId, engagers, followers, engaged, apiVars,
                 userNpubs, http>>


\* ------------------------------------------------------------ HTTP API
\* PUT /auth/webhook: one UPDATE users SET ... WHERE id = $n
PutWebhook(t, url, secret) ==
  /\ rotations < MaxRotations
  /\ IF url = "" /\ secret = ""
     THEN /\ lastResp' = [NoApiResp EXCEPT !.op = "put", !.user = t, !.status = 400]
          /\ UNCHANGED <<users, cfgHist, rotations>>
     ELSE /\ users' = [users EXCEPT ![t] =
               [webhook_url |-> IF url # "" THEN url ELSE @.webhook_url,
                webhook_secret |-> IF secret # "" THEN secret ELSE @.webhook_secret]]
          /\ cfgHist' = [cfgHist EXCEPT ![t] = Append(@, users'[t])]
          /\ rotations' = rotations + 1
          /\ lastResp' = [NoApiResp EXCEPT !.op = "put", !.user = t, !.status = 200]
  /\ UNCHANGED <<surfaceVars, storeVars, userNpubs, handlers, http, results, ackReq,
                 failures>>

\* the UPDATE without its `AND processed = false`
AckMatchesAnyState(rows, t, ids) ==
  {r \in rows : r.user_id = t /\ r.id \in ids}

\* UPDATE events SET processed = true WHERE user_id = $1 AND id = ANY($2)
\* AND processed = false RETURNING id: the rows it returns
AckMatches(rows, t, ids) ==
  {r \in rows : r.user_id = t /\ r.id \in ids /\ ~r.processed}

AckUpdated(rows, t, ids) ==
  {IF r \in AckMatches(rows, t, ids) THEN [r EXCEPT !.processed = TRUE] ELSE r :
     r \in rows}

\* SELECT COUNT(*) FROM events WHERE user_id = $1 AND processed = false
AckRemaining(rows, t) ==
  Cardinality({r \in rows : r.user_id = t /\ ~r.processed})

\* POST /events/acknowledge up to the UPDATE
AckUpdate(t, ids) ==
  /\ ackReq.pc = "idle"
  /\ IF ids = {}
     THEN /\ lastResp' = [NoApiResp EXCEPT !.op = "ack", !.user = t, !.status = 400]
          /\ UNCHANGED <<events, ackReq>>
     ELSE /\ events' = AckUpdated(events, t, ids)
          /\ ackReq' = [pc |-> "count", user |-> t, ids |-> ids,
                        changed |-> {r.id : r \in AckMatches(events, t, ids)}]
          /\ UNCHANGED lastResp
  /\ UNCHANGED <<surfaceVars, nextEventId, engagers, followers, webhook_logs, engaged, users,
                 cfgHist, rotations, failures, userNpubs, handlers,
                 http, results>>

\* POST /events/acknowledge: the COUNT query and the response
AckCount ==
  /\ ackReq.pc = "count"
  /\ lastResp' = [NoApiResp EXCEPT !.op = "ack", !.user = ackReq.user,
                    !.status = 200, !.ids = ackReq.ids,
                    !.acknowledged = Cardinality(ackReq.changed),
                    !.remaining = AckRemaining(events, ackReq.user)]
  /\ ackReq' = NoAck
  /\ UNCHANGED <<surfaceVars, storeVars, users, cfgHist, rotations, failures, userNpubs,
                 handlers, http, results>>

\* the rows of tenant t that an answered acknowledge call has named
Acked(t) ==
  {r.id : r \in {x \in events :
     /\ x.user_id = t
     /\ x.processed
     /\ ~(ackReq.pc = "count" /\ x.id \in ackReq.changed)}}

DefaultTypes == {"reaction", "reply", "mention", "zap", "follow"}

\* the query without its user_id condition
ActivityRowsAnyTenant(rows, t, since, types) ==
  {r \in rows : /\ r.created_at >= since
                /\ r.event_type \in types
                /\ r.acknowledged = FALSE}

\* the rows of getActivity's query: WHERE user_id = $1 AND created_at >= $2
\* AND type = ANY($3) AND acknowledged = false
ActivityRows(rows, t, since, types) ==
  {r \in rows : /\ r.user_id = t
                /\ r.created_at >= since
                /\ r.event_type \in types
                /\ r.acknowledged = FALSE}

\* GET /events/activity?since&types; an absent parameter is given as -1 / {}
GetActivity(t, sinceParam, typesParam) ==
  LET since == IF sinceParam = -1 THEN Now - DayLen ELSE sinceParam
      types == IF typesParam = {} THEN DefaultTypes ELSE typesParam
      rows == ActivityRows(events, t, since, types) IN
  /\ lastResp' = [NoApiResp EXCEPT !.op = "activity", !.user = t, !.status = 200,
       !.returned = {r.id : r \in rows},
       !.ackedBefore = Acked(t),
       !.unackedMatch = {r.id : r \in {x \in events :
            /\ x.user_id = t /\ x.created_at >= since /\ x.event_type \in types
            /\ ~x.processed}}]
  /\ UNCHANGED <<surfaceVars, storeVars, users, cfgHist, rotations, ackReq, failures,
                 userNpubs, handlers, http, results>>

\* ------------------------------------------------------- store failures
\* a throw that leaves the event callback as a rejected promise
Uncaught(rec) == [rec EXCEPT !.pc = "rejected"]

\* the catch of processMention / processZap / processFollow: the error is
\* printed, the call returns and the callback goes on with its next tag
Caught(rec) == Resume(rec, rec.ti + 1)

\* the pending db.query of handler h throws: inside processMention /
\* processFollow / processZap the catch logs and returns; inside sendWebhook's
\* try the catch writes a 'failed' log row; inside that catch it propagates to
\* the caller's catch
DbFail(h) ==
  LET rec == handlers[h] IN
  /\ failures < MaxFailures
  /\ rec.pc \in {"m_check", "m_insert", "m_engager", "z_insert", "f_check",
                 "f_insert", "f_count", "wh_read", "wh_log", "wh_logerr"}
  /\ failures' = failures + 1
  /\ handlers' = [handlers EXCEPT ![h] =
       IF rec.pc \in {"wh_read", "wh_log"}
       THEN [rec EXCEPT !.pc = "wh_logerr",
                        !.resp = [status |-> 0, err |-> "db error"]]
       ELSE Caught(rec)]
  /\ UNCHANGED <<surfaceVars, storeVars, users, cfgHist, rotations, ackReq, lastResp,
                 userNpubs, http, results>>

\* query strings of GET /events/activity used by the clients
ActivityQueries ==
  { [since |-> -1, types |-> {}], [since |-> 2, types |-> {"mention", "zap"}],
    [since |-> 0, types |-> {"mention"}] }

\* the steps of sendWebhook
Sender(h) ==
  \/ WebhookRead(h)
  \/ \E out \in Outcomes : WebhookFetch(h, out)
  \/ WebhookLog(h)
  \/ WebhookLogErr(h)

MentionSteps(h) == MentionCheck(h) \/ MentionInsert(h) \/ MentionEngager(h)

FollowSteps(h) == FollowCheck(h) \/ FollowInsert(h) \/ FollowCount(h)

\* relay listener and webhook sender
Next ==
  \E h \in HandlerIds :
    \/ \E e \in EventNames : Deliver(h, e)
    \/ MentionSteps(h)
    \/ ZapInsert(h)
    \/ FollowSteps(h)
    \/ Sender(h)

Spec == Init /\ [][Next]_vars

\* the same with store queries that may throw
NextFail == Next \/ \E h \in HandlerIds : DbFail(h)

SpecFail == Init /\ [][NextFail]_vars

\* deliveries, handled one after the other, racing with PUT /auth/webhook
RotateEvents == {"m2", "z1"}

NextRotate ==
  \/ \E h \in HandlerIds :
       \/ \E e \in RotateEvents : DeliverNext(h, e)
       \/ MentionSteps(h)
       \/ ZapInsert(h)
       \/ Sender(h)
  \/ \E t \in Tenants, url \in {"", "u1"}, secret \in {"", "s1"} :
       PutWebhook(t, url, secret)

SpecRotate == Init /\ [][NextRotate]_vars

\* ingestion, one delivery after the other, racing with POST
\* /events/acknowledge and GET /events/activity
ApiEvents == {"m2", "z1"}

Answers2xx == {out \in Outcomes : out.err = "" /\ ResponseOk(out.status)}

NextApi ==
  \/ \E h \in HandlerIds :
       \/ \E e \in ApiEvents : DeliverNext(h, e)
       \/ MentionSteps(h)
       \/ ZapInsert(h)
       \/ WebhookRead(h)
       \/ \E out \in Answers2xx : WebhookFetch(h, out)
       \/ WebhookLog(h)
  \/ \E t \in Tenants, ids \in SUBSET (1..MaxAckId) : AckUpdate(t, ids)
  \/ AckCount
  \/ \E t \in Tenants, q \in ActivityQueries : GetActivity(t, q.since, q.types)

SpecApi == Init /\ [][NextApi]_vars

\* ------------------------------------------- authenticate (auth middleware)
\* app.get(path, auth.authenticate[, auth.rateLimit], handler)
RateLimited(endpoint) == endpoint # "/auth/me"

\* api_tokens JOIN users WHERE token = $1 AND revoked = FALSE
\*   AND (expires_at IS NULL OR expires_at > NOW()), without the revoked test
ApiTokenRowsAnyRevoked(tokens, token, now) ==
  {k \in DOMAIN tokens :
     /\ k = token
     /\ (tokens[k].expires_at = NoExpiry \/ tokens[k].expires_at > now)}

\* api_tokens JOIN users WHERE token = $1 AND revoked = FALSE
\*   AND (expires_at IS NULL OR expires_at > NOW())
ApiTokenRows(tokens, token, now) ==
  {k \in DOMAIN tokens :
     /\ k = token
     /\ tokens[k].revoked = FALSE
     /\ (tokens[k].expires_at = NoExpiry \/ tokens[k].expires_at > now)}

\* SELECT * FROM users WHERE api_token = $1
UserRows(token) == {t \in Tenants : RegToken(t) = token}

\* a request arrives; authenticate inspects the Authorization header
Arrive(i, hdr, ep) ==
  /\ reqs[i].pc = "idle"
  /\ \A g \in RequestIds : g < i => reqs[g].pc # "idle"
  /\ LET r == [IdleReq EXCEPT
                 !.header = hdr, !.endpoint = ep,
                 !.revokedAtArrival =
                    /\ hdr # NoHeader
                    /\ hdr[2] \in DOMAIN api_tokens
                    /\ api_tokens[hdr[2]].revoked]
     IN  IF hdr = NoHeader \/ hdr[1] # "Bearer"
           THEN reqs' = [reqs EXCEPT ![i] = [r EXCEPT !.status = 401,
                                                      !.pc = "done"]]
           ELSE reqs' = [reqs EXCEPT ![i] = [r EXCEPT !.token = hdr[2],
                                                      !.pc = "auth_token"]]
  /\ UNCHANGED <<offGate, clock, api_tokens, api_usage>>

\* authenticate: look the token up among the long-lived API tokens
AuthToken(i) ==
  /\ reqs[i].pc = "auth_token"
  /\ LET rows == ApiTokenRows(api_tokens, reqs[i].token, clock)
     IN  IF rows # {}
           THEN LET k == CHOOSE k \in rows : TRUE
                IN  reqs' = [reqs EXCEPT ![i].user = api_tokens[k].user_id,
                                         ![i].tier = TierOf(api_tokens[k].user_id),
                                         ![i].pc = "auth_touch"]
           ELSE reqs' = [reqs EXCEPT ![i].pc = "auth_user"]
  /\ UNCHANGED <<offGate, clock, api_tokens, api_usage>>

\* authenticate: fall back to the registration token of the users table
AuthUser(i) ==
  /\ reqs[i].pc = "auth_user"
  /\ LET rows == UserRows(reqs[i].token)
     IN  IF rows = {}
           THEN reqs' = [reqs EXCEPT ![i].status = 401, ![i].pc = "done"]
           ELSE LET t == CHOOSE t \in rows : TRUE
                IN  reqs' = [reqs EXCEPT ![i].user = t,
                                         ![i].tier = TierOf(t),
                                         ![i].pc = "auth_touch"]
  /\ UNCHANGED <<offGate, clock, api_tokens, api_usage>>

\* authenticate: UPDATE last_used / last_active, then next(); rateLimit, when
\* the route has it, fixes its window before its first query
AuthTouch(i) ==
  /\ reqs[i].pc = "auth_touch"
  /\ reqs' = [reqs EXCEPT ![i].windowStart = clock,
                          ![i].pc = IF RateLimited(reqs[i].endpoint)
                                      THEN "rate_read" ELSE "handler"]
  /\ UNCHANGED <<offGate, clock, api_tokens, api_usage>>

\* the route's handler runs and answers
Handle(i) ==
  /\ reqs[i].pc = "handler"
  /\ reqs' = [reqs EXCEPT ![i].ran = TRUE, ![i].status = 200, ![i].pc = "done"]
  /\ UNCHANGED <<offGate, clock, api_tokens, api_usage>>

\* UPDATE api_tokens SET revoked = TRUE WHERE token = $1
Revoke(k) ==
  /\ k \in DOMAIN api_tokens
  /\ api_tokens[k].revoked = FALSE
  /\ api_tokens' = [api_tokens EXCEPT ![k].revoked = TRUE]
  /\ UNCHANGED <<offGate, clock, api_usage, reqs>>

\* an hour passes
Tick ==
  /\ clock < MaxClock
  /\ clock' = clock + 1
  /\ UNCHANGED <<offGate, api_tokens, api_usage, reqs>>

\* the next request arrives once the earlier ones have been answered
ArriveNext(i, hdr, ep) ==
  /\ \A g \in RequestIds : reqs[g].pc \in {"idle", "done"}
  /\ Arrive(i, hdr, ep)

\* requests with every kind of credential racing with revocation and expiry
NextAuth ==
  \/ \E i \in RequestIds :
       \/ \E hdr \in AuthHeaders : ArriveNext(i, hdr, "/auth/me")
       \/ AuthToken(i)
       \/ AuthUser(i)
       \/ AuthTouch(i)
       \/ Handle(i)
  \/ \E k \in DOMAIN IssuedTokens : Revoke(k)
  \/ Tick

SpecAuth == Init /\ [][NextAuth]_vars

\* --------------------------------------------- rateLimit (auth middleware)
\* config.rateLimits
Limit(tier) == IF tier = "premium" THEN PremiumLimit ELSE FreeLimit

RateEndpoints == {"/metrics/summary", "/events/activity"}

RECURSIVE SumCounts(_, _)
SumCounts(usage, keys) ==
  IF keys = {} THEN 0
  ELSE LET k == CHOOSE k \in keys : TRUE
       IN  usage[k] + SumCounts(usage, keys \ {k})

\* SELECT COALESCE(SUM(request_count), 0) FROM api_usage
\*   WHERE user_id = $1 AND window_start = $2
TotalUsage(usage, uid, windowStart) ==
  SumCounts(usage, {k \in DOMAIN usage : k[1] = uid /\ k[3] = windowStart})

\* INSERT INTO api_usage ... ON CONFLICT (user_id, endpoint, window_start)
\*   DO UPDATE SET request_count = api_usage.request_count + 1
CountRequest(usage, uid, endpoint, windowStart) ==
  LET k == <<uid, endpoint, windowStart>>
  IN  IF k \in DOMAIN usage
        THEN [usage EXCEPT ![k] = @ + 1]
        ELSE usage @@ (k :> 1)

\* rateLimit: read the usage of the window and refuse at the limit
RateRead(i) ==
  /\ reqs[i].pc = "rate_read"
  /\ LET r == reqs[i]
         total == TotalUsage(api_usage, r.user, r.windowStart)
         limit == Limit(r.tier)
     IN  IF total >= limit
           THEN reqs' = [reqs EXCEPT
                  ![i].currentUsage = total,
                  ![i].status = 429,
                  ![i].body = [limit |-> limit, remaining |-> 0,
                               resetAt |-> r.windowStart + 1],
                  ![i].pc = "done"]
           ELSE reqs' = [reqs EXCEPT ![i].currentUsage = total,
                                     ![i].pc = "rate_incr"]
  /\ UNCHANGED <<offGate, clock, api_tokens, api_usage>>

\* rateLimit: count the request, set the X-RateLimit-* headers, next()
RateIncr(i) ==
  /\ reqs[i].pc = "rate_incr"
  /\ LET r == reqs[i]
         limit == Limit(r.tier)
     IN  /\ api_usage' = CountRequest(api_usage, r.user, r.endpoint, r.windowStart)
         /\ reqs' = [reqs EXCEPT
              ![i].headers = [set |-> TRUE, limit |-> limit,
                              remaining |-> limit - r.currentUsage - 1,
                              reset |-> r.windowStart + 1],
              ![i].counted = TotalUsage(api_usage', r.user, r.windowStart),
              ![i].pc = "handler"]
  /\ UNCHANGED <<offGate, clock, api_tokens>>

\* a request arrives while at most one other is being served
ArriveOverlapping(i, hdr, ep) ==
  /\ \A g, h \in RequestIds :
       reqs[g].pc \notin {"idle", "done"} /\ reqs[h].pc \notin {"idle", "done"}
         => g = h
  /\ Arrive(i, hdr, ep)

\* the free tenant uses both routes, the premium tenant one
RateRequests ==
  {<<1, "/metrics/summary">>, <<1, "/events/activity">>, <<2, "/metrics/summary">>}

\* overlapping requests of the tenants to rate-limited routes
NextRate ==
  \/ \E i \in RequestIds :
       \/ \E q \in RateRequests :
            ArriveOverlapping(i, <<"Bearer", RegToken(q[1])>>, q[2])
       \/ AuthToken(i)
       \/ AuthUser(i)
       \/ AuthTouch(i)
       \/ RateRead(i)
       \/ RateIncr(i)
       \/ Handle(i)
  \/ Tick

SpecRate == Init /\ [][NextRate]_vars

\* ------------------------------------------ zone of maximum participation
minWindowSize == 3
maxWindowSize == 6

\* the window's sum with hours past 23 left out
RECURSIVE WindowSumNoWrap(_, _, _)
WindowSumNoWrap(dist, start, windowSize) ==
  IF windowSize = 0 THEN 0
  ELSE (IF start + windowSize - 1 <= 23 THEN dist[start + windowSize - 1] ELSE 0)
         + WindowSumNoWrap(dist, start, windowSize - 1)

\* for (i = 0; i < windowSize; i++) activity += dist[(start + i) % 24]
RECURSIVE WindowSum(_, _, _)
WindowSum(dist, start, windowSize) ==
  IF windowSize = 0 THEN 0
  ELSE dist[(start + windowSize - 1) % 24] + WindowSum(dist, start, windowSize - 1)

\* a window that only ties the best one replaces it
ImprovesOrTies(activity, maxActivity) == activity >= maxActivity

\* if (activity > maxActivity)
Improves(activity, maxActivity) == activity > maxActivity

\* hourlyDistribution.reduce((sum, h) => sum + h.activity_count, 0)
RECURSIVE TotalActivity(_, _)
TotalActivity(dist, n) == IF n = 0 THEN 0 ELSE dist[n - 1] + TotalActivity(dist, n - 1)

\* the decimal digits cut off instead of rounded
toFixedTruncating(maxActivity, totalActivity) ==
  (1000 * maxActivity) \div totalActivity

\* parseFloat(((maxActivity / totalActivity) * 100).toFixed(1)), in tenths of
\* a percent (405 is 40.5): the nearest tenth, a half rounded up
toFixed1(maxActivity, totalActivity) ==
  (2000 * maxActivity + totalActivity) \div (2 * totalActivity)

\* return null
NullZone == [null |-> TRUE]

\* the inner loop, over start, keeping bestZone and maxActivity
RECURSIVE ScanStarts(_, _, _, _)
ScanStarts(dist, windowSize, start, best) ==
  IF start = 24 THEN best
  ELSE LET activity == WindowSum(dist, start, windowSize)
       IN  IF Improves(activity, best.maxActivity)
             THEN ScanStarts(dist, windowSize, start + 1,
                             [maxActivity |-> activity,
                              bestZone |->
                                [null |-> FALSE,
                                 start_hour_gmt |-> start,
                                 end_hour_gmt |-> (start + windowSize - 1) % 24,
                                 window_size |-> windowSize,
                                 total_activity |-> activity]])
             ELSE ScanStarts(dist, windowSize, start + 1, best)

\* the outer loop, over windowSize
RECURSIVE ScanSizes(_, _, _, _)
ScanSizes(dist, windowSize, lastSize, best) ==
  IF windowSize > lastSize THEN best
  ELSE ScanSizes(dist, windowSize + 1, lastSize,
                 ScanStarts(dist, windowSize, 0, best))

\* let bestZone = null; let maxActivity = 0; the loops
ScanZones(dist, firstSize, lastSize) ==
  ScanSizes(dist, firstSize, lastSize,
            [maxActivity |-> 0, bestZone |-> NullZone]).bestZone

\* timing-analytics: calculateMaxParticipationZone(hourlyDistribution)
calculateMaxParticipationZone(dist) ==
  LET bestZone == ScanZones(dist, minWindowSize, maxWindowSize)
      totalActivity == TotalActivity(dist, 24)
  IN  IF bestZone.null THEN NullZone
      ELSE [null |-> FALSE,
            start_hour_gmt |-> bestZone.start_hour_gmt,
            end_hour_gmt |-> bestZone.end_hour_gmt,
            window_size |-> bestZone.window_size,
            total_activity |-> bestZone.total_activity,
            percentage_of_total |->
              IF totalActivity > 0
                THEN toFixed1(bestZone.total_activity, totalActivity) ELSE 0]

\* network-scanner: quickScanNetwork's own copy of the loops; the percentage
\* is taken inside the loop, against posts.length
quickScanZone(hourlyCount) ==
  LET bestZone == ScanZones(hourlyCount, 3, 6)
      totalActivity == TotalActivity(hourlyCount, 24)
  IN  IF bestZone.null THEN NullZone
      ELSE [null |-> FALSE,
            start_hour_gmt |-> bestZone.start_hour_gmt,
            end_hour_gmt |-> bestZone.end_hour_gmt,
            window_size |-> bestZone.window_size,
            total_activity |-> bestZone.total_activity,
            percentage_of_total |->
              IF totalActivity > 0
                THEN toFixed1(bestZone.total_activity, totalActivity) ELSE 0]

\* distributions handed to the zone code: a background count at every hour,
\* a block of consecutive hours (wrapping past 23) raised by one amount and,
\* some hours after the block's start, one more hour raised by one
PeakWidths == 1..MaxPeakWidth
PeakHeights == {1, 8}
SpikeOffsets == {2, 3, 5, 12}

InBlock(h, start, width) == (h - start) % 24 < width

Distribution(base, s1, w1, e1, spike) ==
  [h \in Hours |-> base + (IF InBlock(h, s1, w1) THEN e1 ELSE 0)
                        + (IF spike # 0 /\ h = (s1 + spike) % 24 THEN 1 ELSE 0)]

AllZero == [h \in Hours |-> 0]

\* getActivityByType / quickScanNetwork have assembled an hourly distribution
\* (one per run; without this step it is the all-zero one)
Observe(dist) ==
  /\ ~zone.computed
  /\ hourly = AllZero
  /\ hourly' = dist
  /\ zone' = NotComputed
  /\ UNCHANGED offZone

\* mutated: an hour goes in front of the hours of equal count
PlaceBeforeEqual(dist, sorted, hour) ==
  LET before == {i \in 1..Len(sorted) : dist[sorted[i]] > dist[hour]}
      n == Cardinality(before)
  IN  SubSeq(sorted, 1, n) \o <<hour>> \o SubSeq(sorted, n + 1, Len(sorted))

\* [...].sort((a, b) => b.activity_count - a.activity_count): the sort is
\* stable, an hour goes behind the hours whose count is not smaller
Place(dist, sorted, hour) ==
  LET before == {i \in 1..Len(sorted) : dist[sorted[i]] >= dist[hour]}
      n == Cardinality(before)
  IN  SubSeq(sorted, 1, n) \o <<hour>> \o SubSeq(sorted, n + 1, Len(sorted))

RECURSIVE SortedHours(_, _)
SortedHours(dist, n) ==
  IF n = 0 THEN <<>> ELSE Place(dist, SortedHours(dist, n - 1), n - 1)

\* sorted.slice(0, 3).map(h => h.hour_gmt)
peakHours(dist) == SubSeq(SortedHours(dist, 24), 1, 3)

\* ... and compute its zone of maximum participation and its peak hours, in
\* getActivityByType or in quickScanNetwork
ComputeZone(via) ==
  /\ ~zone.computed
  /\ zone' = [computed |-> TRUE, via |-> via,
              value |-> IF via = "getActivityByType"
                          THEN calculateMaxParticipationZone(hourly)
                          ELSE quickScanZone(hourly),
              peak_hours |-> peakHours(hourly)]
  /\ UNCHANGED <<offZone, hourly>>

NextZone ==
  \/ \E base \in 0..MaxBase : Observe([h \in Hours |-> base])
  \/ \E base \in 0..MaxBase, s1 \in Hours, w1 \in PeakWidths, e1 \in PeakHeights,
        spike \in {0} \cup SpikeOffsets :
       Observe(Distribution(base, s1, w1, e1, spike))
  \/ \E via \in {"getActivityByType", "quickScanNetwork"} : ComputeZone(via)

SpecZone == Init /\ [][NextZone]_vars


\* ===================================================== properties
\* the tenants an event's p-tags name
Targets(e) ==
  {TargetAt(Catalog[e], i) : i \in 1..Len(Catalog[e].tags)} \ {0}

\* some handler is still working on a delivery of e
Active(e) ==
  \E h \in HandlerIds : handlers[h].ev = e /\ handlers[h].pc \notin {"idle", "done"}

\* some delivery of e has been handled to its end
Delivered(e) ==
  \E h \in HandlerIds : handlers[h].ev = e /\ handlers[h].pc = "done"

Settled(e) == Delivered(e) /\ ~Active(e)

RowsOf(t, e) ==
  {r \in events : r.user_id = t /\ r.event_id = Catalog[e].id}

\* the webhook requests sent to tenant t for event e
WebhooksOf(t, e) ==
  {a \in http : a.user = t /\ handlers[a.key[1]].ev = e}

MentionsAndZaps ==
  {e \in EventNames : Catalog[e].kind \in {KindText, KindZap}}

ContactLists == {e \in EventNames : Catalog[e].kind = KindContacts}

\* C1: once every delivery of a mention or zap event X has been handled,
\* each tenant T that X targets has exactly one Event row (T, X) and exactly
\* one webhook was sent to T for X, however often X was delivered.
C1_ExactlyOneRowAndWebhook ==
  \A e \in MentionsAndZaps :
    Settled(e) =>
      \A t \in Targets(e) :
        /\ Cardinality(RowsOf(t, e)) = 1
        /\ Cardinality(WebhooksOf(t, e)) = 1

\* C2: the Event insert, the Engager upsert and the webhook of one mention
\* take effect together or not at all: once no handler is working on X any
\* more, a stored Event row (T, X) has its engager update and its webhook,
\* whichever single store query failed.
C2_AllOrNothing ==
  \A e \in {x \in EventNames : Catalog[x].kind = KindText} :
    ~Active(e) =>
      \A t \in Tenants :
        RowsOf(t, e) # {} =>
          /\ <<t, Catalog[e].id>> \in engaged
          /\ WebhooksOf(t, e) # {}

\* C3: an event whose p-tags name k distinct tenants leaves exactly k Event
\* rows, one for each of them, and one webhook for each of them.
C3_OneRowPerTenant ==
  \A e \in MentionsAndZaps :
    Settled(e) =>
      /\ Cardinality({r \in events : r.event_id = Catalog[e].id})
           = Cardinality(Targets(e))
      /\ {r.user_id : r \in {x \in events : x.event_id = Catalog[e].id}}
           = Targets(e)
      /\ {a.user : a \in {x \in http : handlers[x.key[1]].ev = e}} = Targets(e)

\* the new_follower webhooks sent to tenant t about follower f
FollowerWebhooks(t, f) ==
  {a \in http : /\ a.user = t
                /\ a.eventType = "new_follower"
                /\ Catalog[handlers[a.key[1]].ev].pubkey = f}

FollowAuthors == {Catalog[e].pubkey : e \in ContactLists}

\* C4: for a tenant T and an author F, whatever contact lists of F that
\* p-tag T are delivered and however their handlers interleave, there is never
\* more than one Follower(T, F) row or new_follower webhook, and once the
\* handlers have finished there is exactly one of each.
C4_FollowOnce ==
  \A t \in Tenants, f \in FollowAuthors :
    LET lists == {e \in ContactLists : Catalog[e].pubkey = f /\ t \in Targets(e)}
        rows == {x \in followers : x = <<t, f>>} IN
    /\ Cardinality(FollowerWebhooks(t, f)) <= 1
    /\ ( (\E e \in lists : Delivered(e)) /\ (\A e \in lists : ~Active(e)) )
         => /\ Cardinality(rows) = 1
            /\ Cardinality(FollowerWebhooks(t, f)) = 1

\* two different contact lists of F were handled, one follower and one webhook
C4_Witness ==
  /\ \E g, h \in HandlerIds :
       /\ handlers[g].pc = "done" /\ handlers[h].pc = "done"
       /\ handlers[g].ev = "f1" /\ handlers[h].ev = "f2"
  /\ <<1, "F">> \in followers
  /\ Cardinality(FollowerWebhooks(1, "F")) = 1


AttemptsOf(k) == {a \in http : a.key = k}

Answered2xx(a) == a.resp.err = "" /\ a.resp.status \in 200..299

\* C5: a webhook whose attempt fails is attempted again, up to 3 attempts in
\* all: a finished delivery either got a 2xx answer or made exactly
\* retryCount attempts, and never more than retryCount.
C5_RetriedUpToThree ==
  \A r \in results :
    LET n == Cardinality(AttemptsOf(r.key)) IN
    /\ n <= retryCount
    /\ (\E a \in AttemptsOf(r.key) : Answered2xx(a)) \/ n = retryCount

\* C6: every delivery attempt leaves at most one webhook log row, and exactly
\* one once sendWebhook has returned; its status is `sent` with the HTTP code
\* exactly when the receiver answered 2xx, `failed` with the code or the error
\* text otherwise; sendWebhook returns true exactly when the status is `sent`.
C6_OneLogRowPerAttempt ==
  \A a \in http :
    LET logs == {l \in webhook_logs : l.key = a.key}
        rets == {r \in results : r.key = a.key} IN
    /\ Cardinality(logs) <= 1
    /\ rets # {} =>
         /\ Cardinality(logs) = 1
         /\ \A l \in logs :
              /\ l.user_id = a.user
              /\ l.status \in {"sent", "failed"}
              /\ l.status = "sent" <=> Answered2xx(a)
              /\ a.resp.err = "" => l.response_code = a.resp.status
              /\ a.resp.err # "" => l.error_message = a.resp.err
              /\ \A r \in rets : r.ret <=> (l.status = "sent")

\* one attempt logged `sent`, another logged `failed` with an error text
C6_Witness ==
  \E l1, l2 \in webhook_logs :
    /\ l1.status = "sent" /\ l1.response_code = 200
    /\ l2.status = "failed" /\ l2.error_message = "timeout"
    /\ \E r \in results : r.key = l1.key /\ r.ret

\* C7: the signature header of every webhook is the HMAC-SHA256 of exactly the
\* body sent, keyed with a secret the tenant's row held; a receiver verifying
\* the received body accepts it with that secret and with no other secret, and
\* the signature fits no other body sent.
C7_SignatureOverBody ==
  \A a \in http :
    /\ a.signature = Hmac(a.secret, a.body)
    /\ \E i \in 1..Len(cfgHist[a.user]) :
         cfgHist[a.user][i].webhook_secret = a.secret
    /\ \A sec \in Secrets :
         verifySignature(Parse(a.body), a.signature, sec) <=> (sec = a.secret)
    /\ \A b \in http :
         b.body # a.body => ~verifySignature(Parse(b.body), a.signature, a.secret)

\* webhooks signed with the first and with the rotated secret
C7_Witness ==
  \E a, b \in http : a.secret = "s0" /\ b.secret = "s1" /\ a.body # b.body

\* C8: every attempt is sent to a URL and signed with a secret that the
\* tenant's row held together, in a state of the row no older than the one
\* current when sendWebhook was entered.
C8_RotationAtomic ==
  \A a \in http :
    \E i \in a.startVer..Len(cfgHist[a.user]) :
      cfgHist[a.user][i] = [webhook_url |-> a.url, webhook_secret |-> a.secret]

\* an attempt entered after URL and secret were both changed
C8_Witness ==
  \E a \in http :
    /\ a.startVer = 2
    /\ a.url = "u1" /\ a.secret = "s1"
    /\ cfgHist[a.user][1] = [webhook_url |-> "u0", webhook_secret |-> "s0"]

\* C9: no event named in an answered acknowledge call of the tenant is
\* returned by a later GET /events/activity, and every event of the tenant
\* that matches since/types and was never acknowledged is returned.
C9_AckedNotReturned ==
  lastResp.op = "activity" =>
    /\ lastResp.returned \cap lastResp.ackedBefore = {}
    /\ lastResp.unackedMatch \subseteq lastResp.returned

\* an acknowledge call repeated on any reachable store changes nothing more
C10_RepeatIsNoop ==
  \A t \in Tenants, ids \in (SUBSET (1..MaxAckId)) \ {{}} :
    LET once == AckUpdated(events, t, ids) IN
    /\ AckMatches(once, t, ids) = {}
    /\ AckUpdated(once, t, ids) = once
    /\ AckRemaining(AckUpdated(once, t, ids), t) = AckRemaining(once, t)

\* the UPDATE of an acknowledge call flips exactly the caller's named,
\* unacknowledged rows and reports them
C10_UpdateStep ==
  (ackReq.pc = "idle" /\ ackReq'.pc = "count") =>
    LET t == ackReq'.user
        flipped == {r \in events : ~r.processed /\ r \notin events'} IN
    /\ ackReq'.changed = {r.id : r \in flipped}
    /\ \A r \in flipped : r.user_id = t /\ r.id \in ackReq'.ids
    /\ \A r \in events \ flipped :
         (r.user_id = t /\ r.id \in ackReq'.ids) => r.processed
    /\ events' = (events \ flipped) \cup
                   {[r EXCEPT !.processed = TRUE] : r \in flipped}

\* the answer of an acknowledge call
C10_AnswerStep ==
  (ackReq.pc = "count" /\ ackReq'.pc = "idle") =>
    /\ lastResp'.acknowledged = Cardinality(ackReq.changed)
    /\ lastResp'.remaining =
         Cardinality({r \in events' : r.user_id = ackReq.user /\ ~r.processed})
    /\ events' = events

\* C10: acknowledgement is idempotent: repeating a call with the same
\* eventIds leaves the store unchanged, reports acknowledged = 0 and the same
\* remaining count; in every call acknowledged is the number of the caller's
\* events that changed to acknowledged and remaining is the caller's
\* unacknowledged count at the answer.
C10_AckIdempotent ==
  /\ []C10_RepeatIsNoop
  /\ [][C10_UpdateStep /\ C10_AnswerStep]_vars

\* a repeated call was answered: it named only rows that were acknowledged
\* already, and reported acknowledged = 0
C10_Witness ==
  /\ lastResp.op = "ack" /\ lastResp.status = 200
  /\ lastResp.acknowledged = 0
  /\ lastResp.ids # {}
  /\ \A i \in lastResp.ids :
       \E r \in events : r.id = i /\ r.user_id = lastResp.user /\ r.processed
  /\ \E r \in events : r.user_id = lastResp.user /\ ~r.processed

\* ---------------------------------------------------------- authentication
BadHeader(r) == r.header = NoHeader \/ r.header[1] # "Bearer"

\* token is, now, a non-revoked and unexpired ApiCredential of tenant t
ApiCredentialOf(token, t) ==
  /\ token \in DOMAIN api_tokens
  /\ api_tokens[token].user_id = t
  /\ ~api_tokens[token].revoked
  /\ (api_tokens[token].expires_at = NoExpiry \/ api_tokens[token].expires_at > clock)

\* ... or, no ApiCredential matching, the registration token of t
CredentialOf(token, t) ==
  \/ ApiCredentialOf(token, t)
  \/ /\ \A u \in Tenants : ~ApiCredentialOf(token, u)
     /\ RegToken(t) = token

\* whatever has been answered or run so far is consistent with the credentials
C11_Answers ==
  \A i \in RequestIds :
    LET r == reqs[i] IN
      /\ r.ran => r.user # 0 /\ r.status = 200
      /\ r.status = 401 =>
           /\ ~r.ran /\ r.user = 0 /\ r.pc = "done"
           /\ BadHeader(r) \/ \A t \in Tenants : ~CredentialOf(r.token, t)
      /\ r.revokedAtArrival => r.user = 0 /\ ~r.ran
      /\ r.pc = "done" /\ r.revokedAtArrival => r.status = 401

\* the step that admits a request as tenant T finds its token to be a
\* credential of T
C11_AdmitStep ==
  \A i \in RequestIds :
    reqs[i].user = 0 /\ reqs'[i].user # 0 =>
      ~BadHeader(reqs[i]) /\ CredentialOf(reqs[i].token, reqs'[i].user)

\* C11: a request is admitted as tenant T exactly when its bearer token is a
\* non-revoked, unexpired ApiCredential of T (looked up first) or T's
\* registration token; a missing, malformed, unknown, expired or revoked token
\* is answered 401 and the handler never runs; a request that arrives with a
\* revoked ApiCredential is answered 401.
C11_Authentication ==
  /\ []C11_Answers
  /\ [][C11_AdmitStep]_vars

\* the same ApiCredential admitted before its revocation and refused after it
C11_Witness ==
  \E i, j \in RequestIds :
    /\ i < j
    /\ reqs[i].token \in DOMAIN IssuedTokens
    /\ reqs[j].token = reqs[i].token
    /\ reqs[i].ran /\ reqs[i].user = IssuedTokens[reqs[i].token].user_id
    /\ reqs[j].revokedAtArrival /\ reqs[j].pc = "done" /\ reqs[j].status = 401

\* ------------------------------------------------------------ rate limiting
\* the rate limiter let the request through
Admitted(r) == r.pc \in {"handler", "done"} /\ RateLimited(r.endpoint) /\ r.status # 429
                 /\ r.user # 0

\* C12: a request that finds the tenant's L requests of the hour already
\* counted is answered 429 carrying X-RateLimit-Remaining: 0 and an
\* X-RateLimit-Reset at the top of the next hour; it is not counted and its
\* handler does not run; a request is let through only below the limit.
C12_OverLimit ==
  \A i \in RequestIds :
    LET r == reqs[i] IN
      /\ r.status = 429 =>
           /\ r.currentUsage >= Limit(r.tier)
           /\ r.headers.set
           /\ r.headers.remaining = 0
           /\ r.headers.reset = r.windowStart + 1
           /\ r.counted = 0
           /\ ~r.ran
      /\ Admitted(r) => r.currentUsage < Limit(r.tier)

\* C13: on every response let through by the rate limiter,
\* X-RateLimit-Remaining plus the requests counted for the tenant in the
\* window, this one included, is the tier's limit, and Remaining >= 0.
C13_RemainingPlusUsed ==
  \A i \in RequestIds :
    LET r == reqs[i] IN
      Admitted(r) =>
        /\ r.headers.set
        /\ r.headers.remaining >= 0
        /\ r.headers.remaining + r.counted = Limit(r.tier)

\* requests counted for a tenant on one route in one window
RouteUsage(uid, endpoint, windowStart) ==
  IF <<uid, endpoint, windowStart>> \in DOMAIN api_usage
    THEN api_usage[<<uid, endpoint, windowStart>>] ELSE 0

\* C14: rate limits are per endpoint class (/events/activity apart from the
\* analytics routes): a request is refused only when the tenant has used up
\* the allowance of the route it asks for, never because of requests spent on
\* the other class.  Every class allows at least the free tier's limit.
C14_PerEndpointClass ==
  \A i \in RequestIds :
    LET r == reqs[i] IN
      r.status = 429 => RouteUsage(r.user, r.endpoint, r.windowStart) >= FreeLimit

\* ------------------------------------ insight cache, aggregator, scanner
\* CURRENT_DATE, in whole days
CurrentDate(now) == now \div 24

\* intervalMap[period] || '30 days', in hours
IntervalHours(period) ==
  CASE period = "24h" -> 24
    [] period = "7d" -> 168
    [] period = "30d" -> 720
    [] period = "6m" -> 4320
    [] OTHER -> 720

\* periodDays[period] || 30, in hours
PeriodHours(period) ==
  CASE period = "7d" -> 168
    [] period = "30d" -> 720
    [] period = "90d" -> 2160
    [] period = "6m" -> 4320
    [] OTHER -> 720

validReadPeriods == {"24h", "7d", "30d", "6m"}
validScanPeriods == {"7d", "30d", "90d"}

\* the contact list a relay holds for a tenant (kind 3, p tags)
RelayFollowing(t) == IF t = 1 THEN <<"a">> ELSE <<>>

\* the notes (kind 1) the relays hold; created_at in hours on the clock
RelayNotes ==
  {[id |-> "n1", pubkey |-> "a", created_at |-> -2],
   [id |-> "n2", pubkey |-> "a", created_at |-> -100],
   [id |-> "n3", pubkey |-> "b", created_at |-> -3]}

\* postedAt.getUTCHours()
getUTCHours(at) == at % 24

\* the notes of an answer, newest first
RECURSIVE SetToSeq(_)
SetToSeq(S) ==
  IF S = {} THEN <<>>
  ELSE LET x == CHOOSE x \in S : \A y \in S : x.created_at >= y.created_at
       IN  <<x>> \o SetToSeq(S \ {x})

InSeq(x, sq) == \E i \in 1..Len(sq) : sq[i] = x

\* fetchNetworkPosts(following, since)
fetchNetworkPosts(pubkeys, since) ==
  SetToSeq({n \in RelayNotes : InSeq(n.pubkey, pubkeys) /\ n.created_at >= since})

\* cacheKey of a read
InsightType(op, type, period) ==
  IF op = "network-activity" THEN <<"network_activity", type, period>>
  ELSE <<"best_posting_times">>

InsightKey(call) == <<call.user, InsightType(call.op, call.type, call.period), call.period>>

\* the ttlHours argument of cacheInsight in the two read routes
TtlHours(op) == IF op = "network-activity" THEN 1 ELSE 4

\* mutated: a stored row is served whatever its expires_at
getCachedInsightAnyAge(table, key, now) ==
  IF key \in DOMAIN table THEN table[key] ELSE NoRow

\* getCachedInsight: the row of the key with expires_at > NOW(), else null
getCachedInsight(table, key, now) ==
  IF key \in DOMAIN table /\ table[key].expires_at > now
    THEN table[key] ELSE NoRow

\* cacheInsight: INSERT ... ON CONFLICT (user_id, insight_type, period) DO UPDATE
cacheInsight(table, key, data, now, ttlHours) ==
  [k \in DOMAIN table \cup {key} |->
     IF k = key THEN [present |-> TRUE, data |-> data, expires_at |-> now + ttlHours]
     ELSE table[k]]

\* DELETE FROM insights WHERE user_id = $1
DeleteInsights(table, t) == [k \in {j \in DOMAIN table : j[1] # t} |-> table[k]]

\* source rows of an activity type: [id, user_id, at, hour_gmt]
SourceRows(kind) ==
  CASE kind = "follower_post" ->
         {[id |-> r.id, user_id |-> r.user_id, at |-> r.posted_at, hour_gmt |-> r.hour_gmt] :
            r \in {q \in post_activity : q.author_type = "follower"}}
    [] kind = "following_post" ->
         {[id |-> r.id, user_id |-> r.user_id, at |-> r.posted_at, hour_gmt |-> r.hour_gmt] :
            r \in {q \in post_activity : q.author_type = "following"}}
    [] OTHER ->
         {[id |-> r.id, user_id |-> r.user_id, at |-> r.created_at \div 3600,
           hour_gmt |-> getUTCHours(r.created_at \div 3600)] : r \in events}

\* INSERT INTO network_activity ... SELECT ... GROUP BY hour_gmt
\* ON CONFLICT (user_id, activity_type, hour_gmt, window_date) DO UPDATE
UpsertCounts(table, t, kind, rows, date) ==
  LET hours == {r.hour_gmt : r \in rows}
      keys == {<<t, kind, h, date>> : h \in hours}
  IN  [k \in DOMAIN table \cup keys |->
         IF k \in keys THEN Cardinality({r \in rows : r.hour_gmt = k[3]})
         ELSE table[k]]

\* one aggregation query of aggregateHourlyActivity
AggregateQuery(table, t, kind, hours, now) ==
  UpsertCounts(table, t, kind,
               {r \in SourceRows(kind) : r.user_id = t /\ r.at > now - hours},
               CurrentDate(now))

\* the query of aggregatePostActivity: no time window
AggregateAllQuery(table, t, now) ==
  UpsertCounts(table, t, "following_post",
               {r \in SourceRows("following_post") : r.user_id = t},
               CurrentDate(now))

NextId(kind) == IF kind = "engagement" THEN nextEventId ELSE nextPostId

\* getActivityByType: SUM(activity_count) per hour over the window dates,
\* missing hours filled with 0
RECURSIVE SumCountsOf(_, _)
SumCountsOf(table, keys) ==
  IF keys = {} THEN 0
  ELSE LET k == CHOOSE k \in keys : TRUE
       IN  table[k] + SumCountsOf(table, keys \ {k})

getActivityByType(table, t, kind, hours, now) ==
  [h \in Hours |->
     SumCountsOf(table, {k \in DOMAIN table :
                           /\ k[1] = t /\ k[2] = kind /\ k[3] = h
                           /\ k[4] > CurrentDate(now) - hours \div 24})]

\* what a read route computes on a miss: getNetworkActivity for the type, or
\* getBestPostingTimes (score: 60 % follower activity, 40 % engagement)
ComputedInsight(call, now) ==
  LET hours == IntervalHours(call.period) IN
  IF call.op = "network-activity"
    THEN [period |-> call.period,
          distribution |-> getActivityByType(network_activity, call.user,
                                             "following_post", hours, now)]
    ELSE LET f == getActivityByType(network_activity, call.user, "follower_post", hours, now)
             e == getActivityByType(network_activity, call.user, "engagement", hours, now)
         IN  [period |-> call.period,
              distribution |-> [h \in Hours |-> (6 * f[h] + 4 * e[h] + 5) \div 10]]

\* the next handler starts once the earlier ones have answered
Begin(c, call) ==
  /\ calls[c].pc = "idle"
  /\ \A g \in CallIds : g < c => calls[g].pc = "done"
  /\ calls' = [calls EXCEPT ![c] = call]

\* GET /metrics/timing/network-activity, GET /insights/best-posting-times:
\* input validation
StartRead(c, op, t, type, period) ==
  /\ Begin(c, IF period \in validReadPeriods
                THEN [IdleCall EXCEPT !.pc = "cache_get", !.op = op, !.user = t,
                                      !.type = type, !.period = period]
                ELSE [IdleCall EXCEPT !.pc = "done", !.op = op, !.user = t,
                                      !.type = type, !.period = period,
                                      !.status = 400])
  /\ UNCHANGED <<offCache, clock, insights, post_activity, nextPostId, following,
                 network_activity, lastRun, scans>>

\* ... getCachedInsight, and the answer on a hit
CacheGet(c) ==
  LET call == calls[c]
      key == InsightKey(call)
      row == getCachedInsight(insights, key, clock)
      seen == [call EXCEPT !.readAt = clock,
                           !.rowAtRead = IF key \in DOMAIN insights
                                           THEN insights[key] ELSE NoRow]
  IN
  /\ call.pc = "cache_get"
  /\ calls' = [calls EXCEPT ![c] =
                 IF row.present
                   THEN [seen EXCEPT !.pc = "done", !.status = 200,
                                     !.cached = TRUE, !.data = row.data]
                   ELSE [seen EXCEPT !.pc = "agg_follower"]]
  /\ UNCHANGED <<offCache, clock, insights, post_activity, nextPostId, following,
                 network_activity, lastRun, scans>>

\* POST /admin/aggregate-activity
StartAggregate(c, t, period) ==
  /\ Begin(c, [IdleCall EXCEPT !.pc = "agg_follower", !.op = "aggregate-activity",
                               !.user = t, !.period = period])
  /\ UNCHANGED <<offCache, clock, insights, post_activity, nextPostId, following,
                 network_activity, lastRun, scans>>

InsightKeysOf(table, t) == {k \in DOMAIN table : k[1] = t}

\* aggregateHourlyActivity: one of its three queries; after the last one the
\* admin route answers, a read route goes on to compute
Aggregate(c, pc, kind, nextPc) ==
  LET call == calls[c]
      hours == IntervalHours(call.period)
  IN
  /\ call.pc = pc
  /\ network_activity' = AggregateQuery(network_activity, call.user, kind, hours, clock)
  /\ lastRun' = [lastRun EXCEPT ![<<call.user, kind>>] =
                   [ran |-> TRUE, since |-> clock - hours,
                    upto |-> NextId(kind)]]
  /\ calls' = [calls EXCEPT ![c] =
                 IF nextPc = "compute" /\ call.op = "aggregate-activity"
                   THEN [call EXCEPT !.pc = "done", !.status = 200,
                                     !.insightsLeft = InsightKeysOf(insights, call.user)]
                   ELSE [call EXCEPT !.pc = nextPc]]
  /\ UNCHANGED <<offCache, clock, insights, post_activity, nextPostId, following, scans>>

AggFollower(c) == Aggregate(c, "agg_follower", "follower_post", "agg_following")
AggFollowing(c) == Aggregate(c, "agg_following", "following_post", "agg_engagement")
AggEngagement(c) == Aggregate(c, "agg_engagement", "engagement", "compute")

\* getNetworkActivity / getBestPostingTimes
Compute(c) ==
  /\ calls[c].pc = "compute"
  /\ calls' = [calls EXCEPT ![c].pc = "cache_put",
                            ![c].data = ComputedInsight(calls[c], clock)]
  /\ UNCHANGED <<offCache, clock, insights, post_activity, nextPostId, following,
                 network_activity, lastRun, scans>>

\* cacheInsight and the answer on a miss
CachePut(c) ==
  LET call == calls[c] IN
  /\ call.pc = "cache_put"
  /\ insights' = cacheInsight(insights, InsightKey(call), call.data, clock,
                              TtlHours(call.op))
  /\ calls' = [calls EXCEPT ![c].pc = "done", ![c].status = 200, ![c].cached = FALSE]
  /\ UNCHANGED <<offCache, clock, post_activity, nextPostId, following,
                 network_activity, lastRun, scans>>

\* POST /admin/scan-network: period validation, start of scanUserNetwork
StartScanUpTo(c, t, period, maxScans) ==
  /\ scans < maxScans
  /\ scans' = scans + 1
  /\ Begin(c, IF period \in validScanPeriods
                THEN [IdleCall EXCEPT !.pc = "scan_following", !.op = "scan-network",
                                      !.user = t, !.period = period,
                                      !.since = clock - PeriodHours(period)]
                ELSE [IdleCall EXCEPT !.pc = "done", !.op = "scan-network",
                                      !.user = t, !.period = period, !.status = 400])
  /\ UNCHANGED <<offCache, clock, insights, post_activity, nextPostId, following,
                 network_activity, lastRun>>

StartScan(c, t, period) == StartScanUpTo(c, t, period, MaxScans)

\* scanUserNetwork: getFollowingList has answered; an empty list fails the
\* scan (400 with the result spread into the body)
ScanFollowingGot(c, list) ==
  LET call == calls[c] IN
  /\ call.pc = "scan_following"
  /\ calls' = [calls EXCEPT ![c] =
                 IF Len(list) = 0
                   THEN [call EXCEPT !.pc = "done", !.status = 400,
                                     !.data = [success |-> FALSE, following_count |-> 0,
                                               posts_found |-> 0]]
                   ELSE [call EXCEPT !.pc = "scan_store_following", !.todo = list,
                                     !.followed = list]]
  /\ UNCHANGED <<offCache, clock, insights, post_activity, nextPostId, following,
                 network_activity, lastRun, scans>>

ScanFollowing(c) == ScanFollowingGot(c, RelayFollowing(calls[c].user))

\* ... INSERT INTO following ... ON CONFLICT DO NOTHING, one row per await;
\* after the last one fetchNetworkPosts
ScanStoreFollowing(c) ==
  LET call == calls[c]
      rest == Tail(call.todo)
  IN
  /\ call.pc = "scan_store_following"
  /\ following' = following \cup {<<call.user, call.todo[1]>>}
  /\ calls' = [calls EXCEPT ![c] =
                 IF Len(rest) > 0 THEN [call EXCEPT !.todo = rest]
                 ELSE LET posts == fetchNetworkPosts(call.followed, call.since)
                      IN  [call EXCEPT !.todo = posts,
                                       !.data = [success |-> TRUE,
                                                 following_count |-> Len(call.followed),
                                                 posts_found |-> Len(posts)],
                                       !.pc = IF Len(posts) > 0 THEN "scan_store_post"
                                              ELSE "scan_aggregate"]]
  /\ UNCHANGED <<offCache, clock, insights, post_activity, nextPostId,
                 network_activity, lastRun, scans>>

\* ... INSERT INTO post_activity ... ON CONFLICT DO NOTHING (the table has no
\* unique constraint), one row per await
ScanStorePost(c) ==
  LET call == calls[c]
      post == call.todo[1]
      rest == Tail(call.todo)
  IN
  /\ call.pc = "scan_store_post"
  /\ post_activity' = post_activity \cup
       {[id |-> nextPostId, user_id |-> call.user, author_npub |-> post.pubkey,
         author_type |-> "following", note_id |-> post.id,
         posted_at |-> post.created_at,
         hour_gmt |-> getUTCHours(post.created_at)]}
  /\ nextPostId' = nextPostId + 1
  /\ calls' = [calls EXCEPT ![c] =
                 [call EXCEPT !.todo = rest,
                              !.pc = IF Len(rest) > 0 THEN "scan_store_post"
                                     ELSE "scan_aggregate"]]
  /\ UNCHANGED <<offCache, clock, insights, following, network_activity, lastRun, scans>>

\* ... aggregatePostActivity
ScanAggregate(c) ==
  LET call == calls[c] IN
  /\ call.pc = "scan_aggregate"
  /\ network_activity' = AggregateAllQuery(network_activity, call.user, clock)
  /\ lastRun' = [lastRun EXCEPT ![<<call.user, "following_post">>] =
                   [ran |-> TRUE, since |-> call.since,
                    upto |-> nextPostId]]
  /\ calls' = [calls EXCEPT ![c].pc = "scan_clear"]
  /\ UNCHANGED <<offCache, clock, insights, post_activity, nextPostId, following, scans>>

\* POST /admin/scan-network: DELETE FROM insights WHERE user_id = $1, answer
ScanClear(c) ==
  LET call == calls[c] IN
  /\ call.pc = "scan_clear"
  /\ insights' = DeleteInsights(insights, call.user)
  /\ calls' = [calls EXCEPT ![c].pc = "done", ![c].status = 200,
                            ![c].insightsLeft = InsightKeysOf(insights', call.user)]
  /\ UNCHANGED <<offCache, clock, post_activity, nextPostId, following,
                 network_activity, lastRun, scans>>

\* the calls of a run: [op, user, type, period]
CacheCalls ==
  {[op |-> "network-activity", user |-> 1, type |-> "following", period |-> "24h"],
   [op |-> "best-posting-times", user |-> 1, type |-> "", period |-> "30d"],
   [op |-> "aggregate-activity", user |-> 1, type |-> "", period |-> "24h"],
   [op |-> "scan-network", user |-> 1, type |-> "", period |-> "7d"],
   [op |-> "scan-network", user |-> 2, type |-> "", period |-> "7d"]}

Start(c, q) ==
  CASE q.op = "aggregate-activity" -> StartAggregate(c, q.user, q.period)
    [] q.op = "scan-network" -> StartScan(c, q.user, q.period)
    [] OTHER -> StartRead(c, q.op, q.user, q.type, q.period)

NextCache ==
  \/ \E c \in CallIds :
       \/ \E q \in CacheCalls : Start(c, q)
       \/ CacheGet(c)
       \/ AggFollower(c)
       \/ AggFollowing(c)
       \/ AggEngagement(c)
       \/ Compute(c)
       \/ CachePut(c)
       \/ ScanFollowing(c)
       \/ ScanStoreFollowing(c)
       \/ ScanStorePost(c)
       \/ ScanAggregate(c)
       \/ ScanClear(c)
  \/ Tick

SpecCache == Init /\ [][NextCache]_vars

\* ------------------------------------------------------- insight cache
ReadOps == {"network-activity", "best-posting-times"}
AdminOps == {"aggregate-activity", "scan-network"}

Answered(c, ops) ==
  calls[c].pc = "done" /\ calls[c].status = 200 /\ calls[c].op \in ops

\* a read is answered from the cache exactly when the row of its key, as
\* the read found it, expires later than the time of the read, and then
\* with the stored data
C15_Served ==
  \A c \in CallIds :
    Answered(c, ReadOps) =>
      /\ calls[c].cached <=>
           /\ calls[c].rowAtRead.present
           /\ calls[c].rowAtRead.expires_at > calls[c].readAt
      /\ calls[c].cached => calls[c].data = calls[c].rowAtRead.data

\* a read answered with cached: false has upserted what it returns, expiring
\* 1 h (network-activity) or 4 h (best-posting-times) after the upsert
C15_MissStep ==
  \A c \in CallIds :
    /\ calls[c].pc # "done"
    /\ calls'[c].pc = "done" /\ calls'[c].status = 200
    /\ calls'[c].op \in ReadOps /\ ~calls'[c].cached
    => /\ calls[c].data = calls'[c].data
       /\ InsightKey(calls'[c]) \in DOMAIN insights'
       /\ insights'[InsightKey(calls'[c])] =
            [present |-> TRUE, data |-> calls'[c].data,
             expires_at |-> clock + (IF calls'[c].op = "network-activity"
                                       THEN 1 ELSE 4)]

\* C15: a read of (tenant, insight-kind, period) returns the stored JSON with
\* cached: true if and only if a row for the triple exists whose expires-at
\* is later than now; otherwise the value is recomputed, upserted with its
\* TTL (1 h network-activity, 4 h best-posting-times) and returned with
\* cached: false; a value is never served with cached: true after its
\* expires-at.
C15_ReadThrough == []C15_Served /\ [][C15_MissStep]_vars

\* one read answered from the cache, and one that found an expired row and
\* recomputed it
C15_Witness ==
  /\ \E c \in CallIds : Answered(c, ReadOps) /\ calls[c].cached
  /\ \E c \in CallIds :
       /\ Answered(c, ReadOps) /\ ~calls[c].cached
       /\ calls[c].rowAtRead.present

\* C16: once POST /admin/scan-network has completed, or POST
\* /admin/aggregate-activity has been called, for tenant T, no insight row
\* of T remains in the cache, and the next analytics read of T is answered
\* with cached: false.
C16_Invalidated ==
  \A c \in CallIds :
    Answered(c, AdminOps) =>
      /\ calls[c].insightsLeft = {}
      /\ \A d \in CallIds :
           /\ d > c /\ Answered(d, ReadOps) /\ calls[d].user = calls[c].user
           /\ \A g \in CallIds : c < g /\ g < d => calls[g].user # calls[c].user
           => ~calls[d].cached

\* ------------------------------------------------------ timing aggregator
CountOf(t, kind, h, date) ==
  IF <<t, kind, h, date>> \in DOMAIN network_activity
    THEN network_activity[<<t, kind, h, date>>] ELSE 0

\* the source rows of (tenant, kind, hour) that the latest aggregation query
\* of the kind had in its window
RowsOfLastRun(t, kind, h) ==
  {r \in SourceRows(kind) :
     /\ r.user_id = t /\ r.hour_gmt = h
     /\ r.id < lastRun[<<t, kind>>].upto
     /\ r.at > lastRun[<<t, kind>>].since}

\* C17: after any sequence of aggregation runs, for every tenant, kind and
\* hour, the count of the row (tenant, kind, hour, today) equals the number
\* of source rows with that hour inside the window of the most recent
\* aggregation run; an hour with no source rows in that window has no row or
\* a count of 0.
C17_CountsOfLastRun ==
  \A t \in Tenants, kind \in ActivityTypes :
    lastRun[<<t, kind>>].ran =>
      \A h \in Hours :
        CountOf(t, kind, h, CurrentDate(clock)) = Cardinality(RowsOfLastRun(t, kind, h))

\* ------------------------------------------ zone of maximum participation
\* the sum of a distribution over a set of hours
RECURSIVE SumOver(_, _)
SumOver(dist, hs) ==
  IF hs = {} THEN 0
  ELSE LET h == CHOOSE h \in hs : TRUE IN dist[h] + SumOver(dist, hs \ {h})

\* the circular window [s, s + W) mod 24
CircularWindow(s, W) == {h \in Hours : (h - s) % 24 < W}
CircularSum(dist, s, W) == SumOver(dist, CircularWindow(s, W))

WindowSizes == 3..6

\* C18: for a distribution with non-zero total the returned zone has a
\* circular-window sum that is maximal over W in {3,4,5,6} and s in 0..23;
\* among the maximal windows it has the smallest W and then the smallest s;
\* end_hour = (start + W - 1) mod 24; with all activity in one hour the zone
\* has width 3 and percentage 100.
C18_ZoneIsMaximal ==
  zone.computed /\ SumOver(hourly, Hours) > 0 =>
    LET v == zone.value IN
      /\ ~v.null
      /\ v.window_size \in WindowSizes /\ v.start_hour_gmt \in Hours
      /\ v.end_hour_gmt = (v.start_hour_gmt + v.window_size - 1) % 24
      /\ v.total_activity = CircularSum(hourly, v.start_hour_gmt, v.window_size)
      /\ \A W \in WindowSizes, s \in Hours :
           LET c == CircularSum(hourly, s, W) IN
             /\ c <= v.total_activity
             /\ c = v.total_activity =>
                  \/ v.window_size < W
                  \/ v.window_size = W /\ v.start_hour_gmt <= s
      /\ (\E h \in Hours : \A g \in Hours \ {h} : hourly[g] = 0) =>
           v.window_size = 3 /\ v.percentage_of_total = 1000

\* a zone that wraps past hour 23 and is tied by a window of the same size
C18_Witness ==
  /\ zone.computed /\ ~zone.value.null
  /\ zone.value.end_hour_gmt < zone.value.start_hour_gmt
  /\ \E s \in Hours \ {zone.value.start_hour_gmt} :
       CircularSum(hourly, s, zone.value.window_size) = zone.value.total_activity

\* C19 as stated: the zone's percentage_of_total is zone sum / total as a
\* percentage, lies in [0, 100] and is 0 exactly when the total is 0; the
\* all-zero distribution has a zone whose percentage is 0.
C19_PercentageZeroIffEmpty ==
  zone.computed =>
    LET v == zone.value
        total == SumOver(hourly, Hours)
    IN  /\ ~v.null
        /\ v.percentage_of_total \in 0..1000
        /\ v.percentage_of_total = 0 <=> total = 0
        /\ 2 * (IF v.percentage_of_total * total >= 1000 * v.total_activity
                  THEN v.percentage_of_total * total - 1000 * v.total_activity
                  ELSE 1000 * v.total_activity - v.percentage_of_total * total)
             <= total

\* C19 amended: a zone is returned exactly when the total is non-zero; its
\* percentage_of_total is then zone sum / total as a percentage (to one
\* decimal), lies in (0, 100] and is never 0; the all-zero distribution has
\* no zone (null), hence no percentage.
C19_PercentageOfTotal ==
  zone.computed =>
    LET v == zone.value
        total == SumOver(hourly, Hours)
    IN  /\ v.null <=> total = 0
        /\ ~v.null =>
             /\ v.total_activity = CircularSum(hourly, v.start_hour_gmt, v.window_size)
             /\ v.percentage_of_total \in 1..1000
             /\ 2 * (IF v.percentage_of_total * total >= 1000 * v.total_activity
                       THEN v.percentage_of_total * total - 1000 * v.total_activity
                       ELSE 1000 * v.total_activity - v.percentage_of_total * total)
                  <= total

\* a percentage that had to be rounded up to the next tenth
C19_Witness ==
  /\ zone.computed /\ ~zone.value.null
  /\ zone.value.percentage_of_total * SumOver(hourly, Hours)
       > 1000 * zone.value.total_activity

\* 10 posts at each of the hours 14, 15, 16 and 2 at every other hour
PostsExample == [h \in Hours |-> IF h \in 14..16 THEN 10 ELSE 2]

\* C20 as stated: for that distribution the zone computation returns the zone
\* [14..16] with sum 30 and percentage 40.5.
C20_ExampleZone ==
  zone.computed /\ hourly = PostsExample =>
    /\ ~zone.value.null
    /\ zone.value.start_hour_gmt = 14 /\ zone.value.end_hour_gmt = 16
    /\ zone.value.total_activity = 30
    /\ zone.value.percentage_of_total = 405

\* C20 amended: for that distribution (total 72) the zone computation returns
\* the zone [11..16] of width 6 with sum 36 and percentage 50.0; [14..16],
\* with sum 30, is the best window of width 3 only.
C20_ExampleZoneWidthSix ==
  zone.computed /\ hourly = PostsExample =>
    /\ ~zone.value.null
    /\ zone.value.start_hour_gmt = 11 /\ zone.value.end_hour_gmt = 16
    /\ zone.value.window_size = 6
    /\ zone.value.total_activity = 36
    /\ zone.value.percentage_of_total = 500
    /\ SumOver(hourly, Hours) = 72
    /\ CircularSum(hourly, 14, 3) = 30
    /\ \A s \in Hours : CircularSum(hourly, s, 3) <= 30

C20_Witness == zone.computed /\ hourly = PostsExample /\ ~zone.value.null

\* ------------------------------------------------------------ peak hours
ElementsOf(sq) == {sq[i] : i \in 1..Len(sq)}

\* C21: for every 24-bucket distribution peak_hours is a list of at most 3
\* distinct hours in 0..23, ordered by descending count with ties broken by
\* the lower hour index, and the count at every hour in it is greater than
\* or equal to the count at every hour not in it.
C21_PeakHours ==
  zone.computed =>
    LET p == zone.peak_hours IN
      /\ Len(p) <= 3
      /\ ElementsOf(p) \subseteq Hours
      /\ Cardinality(ElementsOf(p)) = Len(p)
      /\ \A i, j \in 1..Len(p) :
           i < j => \/ hourly[p[i]] > hourly[p[j]]
                    \/ hourly[p[i]] = hourly[p[j]] /\ p[i] < p[j]
      /\ \A h \in ElementsOf(p), g \in Hours \ ElementsOf(p) : hourly[h] >= hourly[g]

\* peak hours with a tie inside the list and a tie with an hour outside it
C21_Witness ==
  /\ zone.computed
  /\ hourly[zone.peak_hours[1]] > hourly[zone.peak_hours[2]]
  /\ hourly[zone.peak_hours[2]] = hourly[zone.peak_hours[3]]
  /\ \E g \in Hours \ ElementsOf(zone.peak_hours) :
       hourly[g] = hourly[zone.peak_hours[3]] /\ hourly[g] > 0

\* ----------------------------------------------------- best posting times
\* Math.round((followerActivity * 0.6) + (engagementActivity * 0.4)); the
\* sum is a multiple of 0.2, never half-way between two integers
CombinedScore(f, e) == (6 * f + 4 * e + 5) \div 10

\* [...combinedActivity].sort((a, b) => b.score - a.score), stable
PlaceScore(score, sorted, hour) ==
  LET n == Cardinality({i \in 1..Len(sorted) : score[sorted[i]] >= score[hour]})
  IN  SubSeq(sorted, 1, n) \o <<hour>> \o SubSeq(sorted, n + 1, Len(sorted))

RECURSIVE SortedByScore(_, _)
SortedByScore(score, n) ==
  IF n = 0 THEN <<>> ELSE PlaceScore(score, SortedByScore(score, n - 1), n - 1)

\* expectedReach, from the relative score score / maxScore * 100 before it is
\* rounded (0 when maxScore is 0)
expectedReach(score, maxScore) ==
  CASE maxScore > 0 /\ 100 * score >= 80 * maxScore -> "high"
    [] maxScore > 0 /\ 100 * score >= 60 * maxScore -> "medium-high"
    [] maxScore > 0 /\ 100 * score >= 40 * maxScore -> "medium"
    [] OTHER -> "low"

\* Math.round(relativeScore)
RelativeScore(score, maxScore) ==
  IF maxScore > 0 THEN (200 * score + maxScore) \div (2 * maxScore) ELSE 0

Confidence(totalDataPoints) ==
  CASE totalDataPoints >= 1000 -> "high"
    [] totalDataPoints >= 500 -> "medium"
    [] OTHER -> "low"

getBestPostingTimes(followerDist, engagementDist) ==
  LET score == [h \in Hours |-> CombinedScore(followerDist[h], engagementDist[h])]
      sorted == SortedByScore(score, 24)
      maxScore == score[sorted[1]]
      total == TotalActivity(followerDist, 24) + TotalActivity(engagementDist, 24)
  IN  [computed |-> TRUE,
       recommendations |->
         [i \in 1..5 |->
            [hour_gmt |-> sorted[i],
             score |-> RelativeScore(score[sorted[i]], maxScore),
             expected_reach |-> expectedReach(score[sorted[i]], maxScore),
             follower_posts |-> followerDist[sorted[i]],
             engagement_count |-> engagementDist[sorted[i]]]],
       total_data_points |-> total,
       confidence |-> Confidence(total)]

\* the distributions getNetworkActivity(userId, 'all', period) hands over:
\* follower posts in one hour, engagement in a block of hours
FollowerHours == {3, 23}
FollowerCounts == {0, 4, 15, 1000}
EngagementStarts == {0, 5, 20}
EngagementWidths == {1, 6}
EngagementCounts == {1, 4, 87, 100}

ObserveActivity(a, x, b, w, y) ==
  /\ ~posting.computed
  /\ activityData.followers = AllZero /\ activityData.engagement = AllZero
  /\ activityData' = [followers |-> [h \in Hours |-> IF h = a THEN x ELSE 0],
                  engagement |-> [h \in Hours |-> IF InBlock(h, b, w) THEN y ELSE 0]]
  /\ UNCHANGED <<offBest, posting>>

ComputeBest ==
  /\ ~posting.computed
  /\ posting' = getBestPostingTimes(activityData.followers, activityData.engagement)
  /\ UNCHANGED <<offBest, activityData>>

NextBest ==
  \/ \E a \in FollowerHours, x \in FollowerCounts, b \in EngagementStarts,
        w \in EngagementWidths, y \in EngagementCounts :
       ObserveActivity(a, x, b, w, y)
  \/ ComputeBest

SpecBest == Init /\ [][NextBest]_vars

\* 0.6 x follower-post count + 0.4 x engagement count, in tenths
RawScore(h) == 6 * activityData.followers[h] + 4 * activityData.engagement[h]

ReachBand(score) ==
  CASE score >= 80 -> "high"
    [] score >= 60 -> "medium-high"
    [] score >= 40 -> "medium"
    [] OTHER -> "low"

\* C22: best-posting-times returns the five hours with the highest combined
\* score (0.6 x follower-post count + 0.4 x engagement count) in descending
\* score order; each carries a score normalised to 0..100 relative to the
\* top hour (100 for the first whenever any score is non-zero, all 0
\* otherwise) and the reach band of that score (high >= 80, medium-high
\* 60..79, medium 40..59, else low); confidence is high iff total data
\* points >= 1000, medium iff >= 500, else low.
C22_BestPostingTimes ==
  posting.computed =>
    LET recs == posting.recommendations
        chosen == {recs[i].hour_gmt : i \in 1..5}
        total == SumOver(activityData.followers, Hours) + SumOver(activityData.engagement, Hours)
    IN  /\ Cardinality(chosen) = 5 /\ chosen \subseteq Hours
        /\ \A i, j \in 1..5 :
             i < j => RawScore(recs[i].hour_gmt) >= RawScore(recs[j].hour_gmt)
        /\ \A h \in chosen, g \in Hours \ chosen : RawScore(h) >= RawScore(g)
        /\ \A i \in 1..5 : recs[i].score \in 0..100
        /\ IF \E h \in Hours : RawScore(h) > 0
             THEN recs[1].score = 100
             ELSE \A i \in 1..5 : recs[i].score = 0
        /\ \A i \in 1..5 : recs[i].expected_reach = ReachBand(recs[i].score)
        /\ posting.confidence = (CASE total >= 1000 -> "high"
                                   [] total >= 500 -> "medium"
                                   [] OTHER -> "low")

\* ------------------------------------------- quick scan and repeated scans
\* the contact lists the relays may hold for a pubkey; "c" has no notes
RelayContactLists == {<<>>, <<"c">>, <<"a", "b">>}

\* quickScanNetwork: periodDays[period] || 30, in hours
QuickPeriodHours(period) == IF period = "7d" THEN 168 ELSE 720
validQuickPeriods == {"7d", "30d"}

\* GET /metrics/timing/quick-scan: npub and period validation (no
\* authentication)
StartQuick(c, npub, period) ==
  /\ Begin(c, IF npub = <<>> \/ period \notin validQuickPeriods
                THEN [IdleCall EXCEPT !.pc = "done", !.op = "quick-scan",
                                      !.npub = npub, !.period = period, !.status = 400]
                ELSE [IdleCall EXCEPT !.pc = "quick_following", !.op = "quick-scan",
                                      !.npub = npub, !.period = period,
                                      !.since = clock - QuickPeriodHours(period)])
  /\ UNCHANGED <<offCache, clock, insights, post_activity, nextPostId, following,
                 network_activity, lastRun, scans>>

\* quickScanNetwork: getFollowingList has answered; an empty list is
\* answered at once (status 200)
QuickFollowing(c, list) ==
  LET call == calls[c] IN
  /\ call.pc = "quick_following"
  /\ calls' = [calls EXCEPT ![c] =
                 IF Len(list) = 0
                   THEN [call EXCEPT !.pc = "done", !.status = 200,
                                     !.data = [error |-> "No following list found",
                                               hourly_distribution |-> <<>>]]
                   ELSE [call EXCEPT !.pc = "quick_fetch", !.followed = list]]
  /\ UNCHANGED <<offCache, clock, insights, post_activity, nextPostId, following,
                 network_activity, lastRun, scans>>

\* hourlyCount[hour]++ for every post
hourlyCountOf(posts) ==
  [h \in Hours |->
     Cardinality({i \in 1..Len(posts) : getUTCHours(posts[i].created_at) = h})]

\* quickScanNetwork: fetchNetworkPosts, the distribution, peak hours and
\* zone, and the answer
QuickFetch(c) ==
  LET call == calls[c]
      posts == fetchNetworkPosts(call.followed, call.since)
      hourlyCount == hourlyCountOf(posts)
  IN
  /\ call.pc = "quick_fetch"
  /\ calls' = [calls EXCEPT ![c] =
                 [call EXCEPT !.pc = "done", !.status = 200,
                              !.data = [following_count |-> Len(call.followed),
                                        posts_analyzed |-> Len(posts),
                                        hourly_distribution |->
                                          [i \in 1..24 |-> hourlyCount[i - 1]],
                                        peak_hours |-> peakHours(hourlyCount),
                                        zone_of_max_participation |->
                                          quickScanZone(hourlyCount)]]]
  /\ UNCHANGED <<offCache, clock, insights, post_activity, nextPostId, following,
                 network_activity, lastRun, scans>>

\* the requests of a run of the scanner
ScanCalls ==
  {[op |-> "scan-network", user |-> 1, npub |-> <<>>, period |-> "7d"],
   [op |-> "scan-network", user |-> 2, npub |-> <<>>, period |-> "30d"],
   [op |-> "quick-scan", user |-> 0, npub |-> Npub("P1"), period |-> "7d"],
   [op |-> "quick-scan", user |-> 0, npub |-> Npub("Q"), period |-> "30d"],
   [op |-> "quick-scan", user |-> 0, npub |-> <<>>, period |-> "7d"],
   [op |-> "quick-scan", user |-> 0, npub |-> Npub("P1"), period |-> "90d"]}

NextScan ==
  \/ \E c \in CallIds :
       \/ \E q \in ScanCalls :
            IF q.op = "scan-network"
              THEN StartScanUpTo(c, q.user, q.period, MaxRescans)
              ELSE StartQuick(c, q.npub, q.period)
       \/ \E list \in RelayContactLists :
            \/ ScanFollowingGot(c, list)
            \/ QuickFollowing(c, list)
       \/ ScanStoreFollowing(c)
       \/ ScanStorePost(c)
       \/ ScanAggregate(c)
       \/ ScanClear(c)
       \/ QuickFetch(c)
  \/ Tick

SpecScan == Init /\ [][NextScan]_vars

RECURSIVE SumSeq(_)
SumSeq(sq) == IF Len(sq) = 0 THEN 0 ELSE Head(sq) + SumSeq(Tail(sq))

\* an answered quick scan carries 24 buckets that sum to posts_analyzed
C23_Response ==
  \A c \in CallIds :
    Answered(c, {"quick-scan"}) =>
      /\ "hourly_distribution" \in DOMAIN calls[c].data
      /\ Len(calls[c].data.hourly_distribution) = 24
      /\ "posts_analyzed" \in DOMAIN calls[c].data
      /\ SumSeq(calls[c].data.hourly_distribution) = calls[c].data.posts_analyzed

\* no step of a quick scan changes a table
C23_Frame ==
  (\E c \in CallIds : calls'[c] # calls[c] /\ calls'[c].op = "quick-scan")
    => UNCHANGED <<post_activity, following, network_activity, insights>>

\* C23: every quick scan response contains an hourly distribution of exactly
\* 24 buckets (hours 0..23) whose counts sum to posts_analyzed, and a quick
\* scan writes nothing to the store: post_activity, following,
\* network_activity and insights are unchanged by it.
C23_QuickScan == []C23_Response /\ [][C23_Frame]_vars

EmptyNetwork(call) == call.data.following_count = 0 \/ call.data.posts_found = 0

\* C24: a full scan of a tenant with an empty network (no followed authors,
\* or no posts by them in the period) returns success with zeroed 24-bucket
\* distributions and a null zone, runs the aggregator and invalidates the
\* tenant's insight cache.
C24_EmptyNetworkScan ==
  \A c \in CallIds :
    /\ calls[c].pc = "done" /\ calls[c].op = "scan-network"
    /\ EmptyNetwork(calls[c])
    => /\ calls[c].status = 200 /\ calls[c].data.success
       /\ "hourly_distribution" \in DOMAIN calls[c].data
       /\ "zone_of_max_participation" \in DOMAIN calls[c].data
       /\ lastRun[<<calls[c].user, "following_post">>].ran
       /\ calls[c].insightsLeft = {}

\* C25: running the full scan twice against the same relay contents leaves
\* post_activity and network_activity as running it once does: one note id
\* of one author is recorded at most once per tenant in post_activity and
\* counted at most once in its hour bucket.
C25_ScanIdempotent ==
  /\ \A r, q \in post_activity :
       r.user_id = q.user_id /\ r.note_id = q.note_id /\ r.author_npub = q.author_npub
         => r = q
  /\ \A t \in Tenants, h \in Hours :
       CountOf(t, "following_post", h, CurrentDate(clock))
         <= Cardinality({r.note_id : r \in {q \in post_activity :
                                              q.user_id = t /\ q.hour_gmt = h}})


\* ------------------------------------------- periodic reload of the tenants
\* loadUsers with the map emptied before the query is awaited
FailedLoadCleared == [n \in {} |-> 0]

\* loadUsers when db.query throws: the catch is entered before
\* userNpubs.clear(), the map keeps the rows of the last load
FailedLoad == userNpubs

\* periodicReload -> subscribeToEvents -> loadUsers; ok: the query returned.
\* On [] subscribeToEvents returns before it closes the subscriptions
periodicReload(ok) ==
  /\ listener.running
  /\ listener.reloads < MaxReloads
  /\ IF ok
     THEN /\ userNpubs' = LoadedUsers
          /\ listener' =
               IF DOMAIN LoadedUsers = {} \/ Pubkeys(LoadedUsers) = {}
               THEN [listener EXCEPT !.reloads = @ + 1, !.lastFailed = FALSE,
                                     !.received = {}]
               ELSE [listener EXCEPT !.reloads = @ + 1, !.lastFailed = FALSE,
                                     !.received = {},
                                     !.pubkeys = Pubkeys(LoadedUsers),
                                     !.opened = @ + 1]
     ELSE /\ userNpubs' = FailedLoad
          /\ listener' = [listener EXCEPT !.reloads = @ + 1, !.failed = @ + 1,
                                          !.lastFailed = TRUE, !.received = {}]
  /\ UNCHANGED <<storeVars, apiVars, handlers, http, results,
                 gateVars, cacheVars, zoneVars, bestVars, lateVars>>

\* the '#p' filter of the active subscriptions matches the event
Subscribed(e) ==
  \E i \in 1..Len(Catalog[e].tags) :
    Catalog[e].tags[i][1] = "p" /\ Catalog[e].tags[i][2] \in listener.pubkeys

\* a relay delivers an event to an active subscription, once the callbacks
\* of the earlier ones have returned
Receive(h, e) ==
  /\ listener.running
  /\ Subscribed(e)
  /\ handlers[h].pc = "idle"
  /\ \A g \in HandlerIds : g < h => handlers[g].pc = "done"
  /\ handlers' = [handlers EXCEPT ![h] = Resume([IdleHandler EXCEPT !.ev = e], 1)]
  /\ listener' = [listener EXCEPT !.received = @ \cup {e}]
  /\ UNCHANGED <<storeVars, apiVars, userNpubs, http, results,
                 gateVars, cacheVars, zoneVars, bestVars, lateVars>>

\* a mention, a zap receipt and a contact list
ReloadEvents == {"m1", "z1", "f1"}

NextReload ==
  \/ \E ok \in BOOLEAN : periodicReload(ok)
  \/ \E h \in HandlerIds :
       \/ \E e \in ReloadEvents : Receive(h, e)
       \/ MentionSteps(h)
       \/ ZapInsert(h)
       \/ FollowSteps(h)
       \/ Sender(h)

SpecReload == Init /\ [][NextReload]_vars

\* C26: a reload whose query fails leaves the map of the last successful load
\* and the subscriptions issued for it as they were and the listener running:
\* every tenant's key still resolves to the same tenant id and is still
\* subscribed, and an event being handled is handled for a tenant it names
C26_SnapshotInForce ==
  /\ listener.running
  /\ \A t \in Tenants :
       /\ Npub(HexOf(t)) \in DOMAIN userNpubs
       /\ userNpubs[Npub(HexOf(t))] = t
       /\ HexOf(t) \in listener.pubkeys
  /\ \A h \in HandlerIds :
       handlers[h].pc \notin {"idle", "done"} =>
         \E i \in 1..Len(Catalog[handlers[h].ev].tags) :
           Catalog[handlers[h].ev].tags[i] = <<"p", HexOf(handlers[h].uid)>>

C26_FailedStep ==
  listener'.failed > listener.failed =>
    /\ userNpubs' = userNpubs
    /\ listener'.pubkeys = listener.pubkeys
    /\ listener'.opened = listener.opened
    /\ listener'.running

C26_ReloadFailureKeepsSnapshot ==
  []C26_SnapshotInForce /\ [][C26_FailedStep]_vars

\* after a failed reload an event arrived and its row was stored for the
\* tenant it names
C26_Witness ==
  /\ listener.lastFailed
  /\ \E r \in events :
       /\ r.event_id \in {Catalog[e].id : e \in listener.received}
       /\ \E e \in listener.received :
            /\ Catalog[e].id = r.event_id
            /\ \E i \in 1..Len(Catalog[e].tags) :
                 Catalog[e].tags[i] = <<"p", HexOf(r.user_id)>>


\* ------------------------------------------------------- isolated failures
\* what a handler that has been started and has not returned does next
HandlerStep(h) == MentionSteps(h) \/ ZapInsert(h) \/ FollowSteps(h) \/ Sender(h)

\* a note without a usable tag, mentions and a zap receipt
IsolateEvents == {"x1", "m2", "z1"}

\* concurrent handlers, queries that may throw, posts that may fail
NextIsolate ==
  \E h \in HandlerIds :
    \/ \E e \in IsolateEvents : Deliver(h, e)
    \/ MentionSteps(h)
    \/ ZapInsert(h)
    \/ Sender(h)
    \/ DbFail(h)

SpecIsolate == Init /\ [][NextIsolate]_vars

\* C27: a failure while one event is handled is confined to that event: the
\* step in which a query throws changes nothing but the failing handler, which
\* goes on to its next tag, to the failed-webhook log or returns; no handler is
\* ever left where it cannot proceed, and the listener keeps running
C27_Proceeds ==
  /\ listener.running
  /\ \A h \in HandlerIds :
       handlers[h].pc \notin {"idle", "done"} => ENABLED HandlerStep(h)

C27_FailureStep ==
  failures' > failures =>
    \E h \in HandlerIds :
      /\ \A g \in HandlerIds \ {h} : handlers'[g] = handlers[g]
      /\ handlers'[h].pc \in {"done", "wh_logerr", "m_check", "z_insert"}
      /\ UNCHANGED <<storeVars, userNpubs, http, results, listener>>

C27_ErrorsIsolated == []C27_Proceeds /\ [][C27_FailureStep]_vars

\* a query failed for the first event, which left no row and no webhook, and
\* the event that came after it was stored and its webhook posted
C27_Witness ==
  /\ failures > 0
  /\ handlers[1].pc = "done" /\ handlers[2].pc = "done"
  /\ handlers[1].ev # handlers[2].ev
  /\ \A r \in events : r.event_id # Catalog[handlers[1].ev].id
  /\ \A q \in http : q.key[1] # 1
  /\ \E r \in events : r.event_id = Catalog[handlers[2].ev].id
  /\ \E q \in http : q.key[1] = 2 /\ q.resp.status = 200


\* ------------------------------------------------ order of the first posts
\* the event whose handler made the HTTP attempt q
EventOfAttempt(q) == Catalog[handlers[q.key[1]].ev].id

\* the webhook of the stored row r has been handed to delivery
Started(r) ==
  \E q \in http : q.user = r.user_id /\ EventOfAttempt(q) = r.event_id

\* C28: webhooks of one tenant are started in the order the rows were stored:
\* once the webhook of a row has been started, the webhook of every row of the
\* same tenant stored before it has been started too
C28_PersistOrder ==
  \A a \in events, b \in events :
    (a.user_id = b.user_id /\ a.id < b.id /\ Started(b)) => Started(a)


\* ------------------------------------------------------ historical events
\* a note older than seven days, a recent note and a recent zap receipt
AgedEvents == {"o1", "m2", "z1"}

\* the listener and the sender, one delivery after the other
NextAged ==
  \E h \in HandlerIds :
    \/ \E e \in AgedEvents : DeliverNext(h, e)
    \/ MentionSteps(h)
    \/ ZapInsert(h)
    \/ Sender(h)

SpecAged == Init /\ [][NextAged]_vars

\* created more than seven days before the listener sees it
Historical(ev) == ev.created_at < Now - 7 * DayLen

\* the callback of handler h has returned
Returned(h) == handlers[h].pc = "done"

C29_Stored ==
  \A h \in HandlerIds :
    Returned(h) => \E r \in events : r.event_id = Catalog[handlers[h].ev].id

C29_RecentPosted ==
  \A h \in HandlerIds :
    (Returned(h) /\ ~Historical(Catalog[handlers[h].ev])) =>
      \E q \in http : EventOfAttempt(q) = Catalog[handlers[h].ev].id

C29_HistoricalSilent ==
  \A q \in http : ~Historical(Catalog[handlers[q.key[1]].ev])

\* C29: an event older than seven days when it is first seen is stored but
\* no webhook is posted for it; a younger event is stored and posted
C29_HistoricalNotPosted ==
  C29_Stored /\ C29_RecentPosted /\ C29_HistoricalSilent


\* ---------------------------------------------------------- zapped amounts
\* receipts with an invoice over an amount, with an invoice that states none
\* and without an invoice
ZapEvents == {"z3", "z1", "z2"}

NextZap ==
  \E h \in HandlerIds :
    \/ \E e \in ZapEvents : DeliverNext(h, e)
    \/ ZapInsert(h)
    \/ Sender(h)

SpecZap == Init /\ [][NextZap]_vars

\* the amount in satoshi that a BOLT11 invoice states after its prefix: 10u
\* is ten millionths of a bitcoin; 0 when it states none
InvoiceSats(bolt11) == IF bolt11 = "lnbc10u1p" THEN 1000 ELSE 0

\* the amount of the invoice a receipt encloses, 0 without one
ZappedSats(ev) ==
  LET at == {i \in 1..Len(ev.tags) : ev.tags[i][1] = "bolt11"}
  IN IF at = {} THEN 0 ELSE InvoiceSats(ev.tags[CHOOSE i \in at : TRUE][2])

\* the amount_sats member of a posted body
AmountSats(body) ==
  LET members == Parse(body)
      at == {i \in 1..Len(members) : members[i][1] = "amount_sats"}
  IN members[CHOOSE i \in at : TRUE][2]

\* C30: the amount_sats of a posted zap webhook is the amount of the invoice
\* the receipt encloses, and 0 when there is none or it cannot be parsed
C30_ZapAmount ==
  \A q \in http :
    q.eventType = "zap" =>
      AmountSats(q.body) = ZappedSats(Catalog[handlers[q.key[1]].ev])


\* ------------------------------------------------------ POST /auth/register
\* the npub member of a request body: the bech32 form of a key, the same key
\* in hex; <<>> when the member is missing
HexText(hex) == <<"hex", hex>>

\* npubToPubkey: nip19.decode of a text that starts with 'npub', every other
\* text is taken to be the hex key
npubToPubkey(text) == IF text[1] = "npub" THEN npubToHex(text) ELSE text[2]

\* auth.generateApiToken(): 32 random bytes, a token no row holds
generateApiToken(n) == <<"dc_", n>>

\* auth.generateWebhookSecret()
generateWebhookSecret(n) == <<"whsec", n>>

\* users.npub TEXT UNIQUE: the INSERT raises 23505
NpubTaken(rows, npub) == \E r \in rows : r.npub = npub

\* POST /auth/register: validation, then one INSERT INTO users
Register(npub, url, secret) ==
  /\ accounts.calls < MaxRegistrations
  /\ IF npub = <<>> \/ url = ""
     THEN accounts' = [accounts EXCEPT !.calls = @ + 1,
            !.resp = [status |-> 400, npub |-> npub, api_token |-> "",
                      webhook_secret |-> ""]]
     ELSE IF NpubTaken(accounts.rows, npub)
     THEN accounts' = [accounts EXCEPT !.calls = @ + 1,
            !.resp = [status |-> 409, npub |-> npub, api_token |-> "",
                      webhook_secret |-> ""]]
     ELSE LET n == accounts.calls + 1
              token == generateApiToken(n)
              generatedSecret == IF secret # "" THEN <<"given", secret>>
                                 ELSE generateWebhookSecret(n)
              id == Cardinality(accounts.rows) + 1 IN
          accounts' = [accounts EXCEPT !.calls = n,
            !.rows = @ \cup {[id |-> id, npub |-> npub, webhook_url |-> url,
                              webhook_secret |-> generatedSecret,
                              api_token |-> token]},
            !.resp = [status |-> 201, npub |-> npub, api_token |-> token,
                      webhook_secret |-> generatedSecret]]
  /\ UNCHANGED offAccounts

\* bodies of registration requests
RegisterNpubs ==
  {<<>>, Npub("P1"), HexText("P1"), Npub("N1"), HexText("N1"), Npub("N2")}

NextRegister ==
  \E npub \in RegisterNpubs, url \in {"", "u1", "u2"}, secret \in {"", "s1"} :
    Register(npub, url, secret)

SpecRegister == Init /\ [][NextRegister]_vars

\* the tenants registered for a key
TenantsOf(rows, hex) == {r \in rows : r.npub # <<>> /\ npubToPubkey(r.npub) = hex}

C31_OnePerPubkey ==
  \A r \in accounts.rows :
    Cardinality(TenantsOf(accounts.rows, npubToPubkey(r.npub))) = 1

C31_ReplayStep ==
  (/\ accounts'.calls > accounts.calls
   /\ accounts'.resp.npub # <<>>
   /\ accounts'.resp.status # 400
   /\ TenantsOf(accounts.rows, npubToPubkey(accounts'.resp.npub)) # {}) =>
     /\ accounts'.resp.status = 409
     /\ accounts'.rows = accounts.rows

\* C31: registering a key that is registered already is answered 409 and
\* leaves the users table as it was, and no key ever has two tenants
C31_RegisterReplay == []C31_OnePerPubkey /\ [][C31_ReplayStep]_vars


\* ------------------------------------------------------ request validation
\* a text that is neither an npub nor a hex key
BadKeyText == <<"bad", "zz">>

\* requests with a period no endpoint knows, one with a key that is no key,
\* and two well-formed ones
ValidationCalls ==
  {[op |-> "network-activity", user |-> 1, type |-> "following", npub |-> <<>>,
    period |-> "1y"],
   [op |-> "best-posting-times", user |-> 1, type |-> "", npub |-> <<>>,
    period |-> "1y"],
   [op |-> "scan-network", user |-> 1, type |-> "", npub |-> <<>>, period |-> "1y"],
   [op |-> "aggregate-activity", user |-> 1, type |-> "", npub |-> <<>>,
    period |-> "1y"],
   [op |-> "quick-scan", user |-> 0, type |-> "", npub |-> Npub("P1"),
    period |-> "1y"],
   [op |-> "quick-scan", user |-> 0, type |-> "", npub |-> BadKeyText,
    period |-> "7d"],
   [op |-> "aggregate-activity", user |-> 2, type |-> "", npub |-> <<>>,
    period |-> "24h"],
   [op |-> "quick-scan", user |-> 0, type |-> "", npub |-> Npub("P1"),
    period |-> "30d"]}

NextValidate ==
  \/ \E c \in CallIds :
       \/ \E q \in ValidationCalls :
            IF q.op = "quick-scan" THEN StartQuick(c, q.npub, q.period)
            ELSE Start(c, q)
       \/ AggFollower(c)
       \/ AggFollowing(c)
       \/ AggEngagement(c)
       \/ \E list \in RelayContactLists : QuickFollowing(c, list)
       \/ QuickFetch(c)
  \/ Tick

SpecValidate == Init /\ [][NextValidate]_vars

\* the periods an endpoint documents
PeriodsOf(op) ==
  CASE op = "scan-network" -> validScanPeriods
    [] op = "quick-scan" -> validQuickPeriods
    [] OTHER -> validReadPeriods

\* the request carried an invalid period or a malformed key
Invalid(call) ==
  \/ call.period \notin PeriodsOf(call.op)
  \/ call.op = "quick-scan" /\ call.npub = BadKeyText

\* C32: a request with an invalid period or a malformed key is answered 400
\* at once: it never enters aggregation or a relay scan
C32_InvalidRejected ==
  \A c \in CallIds :
    (calls[c].pc # "idle" /\ Invalid(calls[c])) =>
      calls[c].pc = "done" /\ calls[c].status = 400


\* ------------------------------------------------------- tenant isolation
\* GET /events/activity returns rows of the caller only
C33_ActivityOwn ==
  lastResp.op = "activity" =>
    \A i \in lastResp.returned :
      \E r \in events : r.id = i /\ r.user_id = lastResp.user

\* a row changes only in the UPDATE of an acknowledge call of its owner
C33_AckStep ==
  \A r \in events \ events' :
    /\ ackReq.pc = "idle" /\ ackReq'.pc = "count"
    /\ r.user_id = ackReq'.user
    /\ r.id \in ackReq'.ids

RelayCount == 3

\* what a relay may send: events for the query's subscription id or for
\* another one, an EVENT frame without an event, EOSE, and text that is no
\* JSON
RelayMessages ==
  {[kind |-> "EVENT", sub |-> "own", ev |-> "e1"],
   [kind |-> "EVENT", sub |-> "other", ev |-> "e9"],
   [kind |-> "EVENT", sub |-> "own", ev |-> "undefined"],
   [kind |-> "EOSE", sub |-> "own", ev |-> ""],
   [kind |-> "junk", sub |-> "", ev |-> ""]}

\* a frame is taken whatever subscription it names
AnySub(msg) == TRUE

\* msg[1] === subId
OwnSub(msg) == msg.sub = "own"

\* cleanup(): the first call closes the socket and resolves with the events
\* collected; later calls do nothing
cleanup(q) ==
  IF q.resolved THEN q
  ELSE [q EXCEPT !.resolved = TRUE, !.resolves = @ + 1, !.resolvedAt = q.elapsed,
                 !.result = q.events, !.consumed = FALSE,
                 !.socket = IF @ = "closed" THEN "closed" ELSE "closing"]

\* fetchUserPosts calls queryRelay for its next relay: new WebSocket, the
\* timer is set
QueryStart ==
  /\ ~fetch.returned /\ fetch.consumed /\ fetch.relay < RelayCount
  /\ fetch' = [fetch EXCEPT !.relay = @ + 1, !.socket = "connecting",
                            !.resolved = FALSE, !.resolves = 0, !.timer = TRUE,
                            !.elapsed = 0, !.resolvedAt = 0, !.received = 0,
                            !.events = <<>>, !.result = <<>>]
  /\ UNCHANGED offFetch

\* ws.on('open'): the REQ is sent
WsOpen ==
  /\ fetch.socket = "connecting"
  /\ fetch' = [fetch EXCEPT !.socket = "open"]
  /\ UNCHANGED offFetch

\* ws.on('message')
WsMessage(msg) ==
  /\ fetch.socket \in {"open", "closing"}
  /\ fetch.received < MaxMessages
  /\ LET got == [fetch EXCEPT !.received = @ + 1] IN
     fetch' =
       IF msg.kind = "EVENT" /\ OwnSub(msg)
         THEN [got EXCEPT !.events = Append(@, msg.ev)]
       ELSE IF msg.kind = "EOSE" /\ OwnSub(msg)
         THEN cleanup([got EXCEPT !.timer = FALSE])
       ELSE got
  /\ UNCHANGED offFetch

\* ws.on('error')
WsError ==
  /\ fetch.socket \in {"connecting", "open"}
  /\ fetch' = cleanup([fetch EXCEPT !.timer = FALSE, !.socket = "closing"])
  /\ UNCHANGED offFetch

\* ws.on('close')
WsClose ==
  /\ fetch.socket \in {"connecting", "open", "closing"}
  /\ fetch' = cleanup([fetch EXCEPT !.timer = FALSE, !.socket = "closed"])
  /\ UNCHANGED offFetch

\* setTimeout(cleanup, timeoutMs) comes due
TimerFires ==
  /\ fetch.timer /\ fetch.elapsed = QueryTimeout
  /\ fetch' = cleanup([fetch EXCEPT !.timer = FALSE])
  /\ UNCHANGED offFetch

\* time passes while the query is pending; a timer that is due fires before
\* time goes on
Elapse ==
  /\ fetch.relay > 0 /\ ~fetch.resolved
  /\ fetch.elapsed <= QueryTimeout
  /\ ~(fetch.timer /\ fetch.elapsed = QueryTimeout)
  /\ fetch' = [fetch EXCEPT !.elapsed = @ + 1]
  /\ UNCHANGED offFetch

\* allPosts after `for (const event of events)`: an event is pushed unless
\* its id is there already; reading .id of a missing event throws
RECURSIVE Merged(_, _)
Merged(posts, evs) ==
  IF evs = <<>> THEN [posts |-> posts, threw |-> FALSE]
  ELSE IF Head(evs) = "undefined" THEN [posts |-> posts, threw |-> TRUE]
  ELSE Merged(IF \E i \in 1..Len(posts) : posts[i] = Head(evs)
                THEN posts ELSE Append(posts, Head(evs)),
              Tail(evs))

\* fetchUserPosts goes on after `await queryRelay`: the events are merged,
\* the loop breaks once there are posts, the catch goes on with the next relay
FetchResume ==
  /\ fetch.resolved /\ ~fetch.consumed
  /\ LET m == Merged(fetch.allPosts, fetch.result)
         last == fetch.relay = RelayCount
         stop == IF m.threw THEN last ELSE Len(m.posts) > 0 \/ last IN
     fetch' = [fetch EXCEPT !.consumed = TRUE, !.allPosts = m.posts,
                            !.returned = stop,
                            !.outcomes = Append(@, [at |-> fetch.resolvedAt,
                                                    n |-> Len(fetch.result),
                                                    threw |-> m.threw])]
  /\ UNCHANGED offFetch

NextFetch ==
  \/ QueryStart
  \/ WsOpen
  \/ \E msg \in RelayMessages : WsMessage(msg)
  \/ WsError
  \/ WsClose
  \/ TimerFires
  \/ Elapse
  \/ FetchResume

SpecFetch == Init /\ [][NextFetch]_vars

OwnEvents == {m.ev : m \in {x \in RelayMessages : x.kind = "EVENT" /\ x.sub = "own"}}

\* C34: a relay query resolves once, by its timeout at the latest, never
\* rejects and hands over the events of its own subscription collected up to
\* then; a relay that timed out or failed does not fail fetchUserPosts
C34_Resolves ==
  /\ fetch.resolves <= 1
  /\ fetch.resolved <=> fetch.resolves = 1
  /\ (fetch.relay = RelayCount /\ fetch.resolved /\ fetch.consumed) => fetch.returned
  /\ fetch.elapsed > QueryTimeout => (fetch.resolved \/ fetch.relay = 0)
  /\ fetch.resolved => fetch.resolvedAt <= QueryTimeout
  /\ (fetch.relay > 0 /\ ~fetch.resolved) => fetch.timer
  /\ \A i \in 1..Len(fetch.result) : fetch.result[i] \in OwnEvents
  /\ Len(fetch.result) <= Len(fetch.events)
  /\ \A i \in 1..Len(fetch.result) : fetch.result[i] = fetch.events[i]
  /\ \A i \in 1..Len(fetch.allPosts) : fetch.allPosts[i] \in OwnEvents \ {"undefined"}

C34_ResolveStep ==
  fetch.resolved /\ fetch'.relay = fetch.relay =>
    /\ fetch'.resolved
    /\ fetch'.result = fetch.result
    /\ fetch'.resolvedAt = fetch.resolvedAt

Passed(t, w) ==
  {i \in RequestIds : reqs[i].user = t /\ reqs[i].windowStart = w /\ Admitted(reqs[i])}

\* C35: however the requests of a tenant overlap, no more of them than the
\* limit of its tier pass the limiter in one hour window
C35_AtMostLimit ==
  \A t \in Tenants, w \in 0..MaxClock :
    Cardinality(Passed(t, w)) <= Limit(TierOf(t))


\* ------------------------------------------------------- follower events
\* no event callback is under way
Quiet == \A h \in HandlerIds : handlers[h].pc \in {"idle", "done"}

\* C36: once the callbacks have returned, every row of followers has an
\* events row of type follow of the same tenant authored by the follower
C36_FollowerHasEvent ==
  Quiet =>
    \A f \in followers :
      \E r \in events :
        r.user_id = f[1] /\ r.event_type = "follow" /\ r.author_npub = f[2]


\* ------------------------------------------- a read that overlaps a scan
\* express serves a request while another one is waiting for a query
BeginOverlapping(c, call) ==
  /\ calls[c].pc = "idle"
  /\ \A g \in CallIds : g < c => calls[g].pc # "idle"
  /\ calls' = [calls EXCEPT ![c] = call]

\* GET /metrics/timing/network-activity?type=following&period=24h of tenant 1
OverlapRead ==
  [IdleCall EXCEPT !.pc = "cache_get", !.op = "network-activity", !.user = 1,
                   !.type = "following", !.period = "24h"]

StartReadOverlapping(c) ==
  /\ BeginOverlapping(c, OverlapRead)
  /\ UNCHANGED <<offCache, clock, insights, post_activity, nextPostId, following,
                 network_activity, lastRun, scans>>

\* POST /admin/scan-network {period: '7d'} of tenant 1
StartScanOverlapping(c) ==
  /\ scans < MaxScans
  /\ scans' = scans + 1
  /\ BeginOverlapping(c, [IdleCall EXCEPT !.pc = "scan_following",
                                          !.op = "scan-network", !.user = 1,
                                          !.period = "7d",
                                          !.since = clock - PeriodHours("7d")])
  /\ UNCHANGED <<offCache, clock, insights, post_activity, nextPostId, following,
                 network_activity, lastRun>>

\* the steps of the read and of the scan
CallStep(c) ==
  \/ CacheGet(c)
  \/ AggFollower(c)
  \/ AggFollowing(c)
  \/ AggEngagement(c)
  \/ Compute(c)
  \/ CachePut(c)
  \/ ScanFollowing(c)
  \/ ScanStoreFollowing(c)
  \/ ScanStorePost(c)
  \/ ScanAggregate(c)
  \/ ScanClear(c)

NextOverlap ==
  \E c \in CallIds :
    \/ StartReadOverlapping(c)
    \/ StartScanOverlapping(c)
    \/ CallStep(c)

SpecOverlap == Init /\ [][NextOverlap]_vars

\* C37: once a scan of a tenant has been answered, every insight row of the
\* tenant holds what the store gives now, not a value computed before the scan
C37_NoStaleRow ==
  \A sc \in CallIds :
    Answered(sc, {"scan-network"}) =>
      \A k \in InsightKeysOf(insights, calls[sc].user) :
        k = InsightKey(OverlapRead) =>
          insights[k].data = ComputedInsight(OverlapRead, clock)

\* ------------------------------------- aggregation on more than one day
\* a day passes: CURRENT_DATE moves on
NextDay ==
  /\ CurrentDate(clock) < MaxDays
  /\ clock' = clock + 24
  /\ UNCHANGED <<offGate, api_tokens, api_usage, reqs>>

\* the calls of tenant 1 over the days, period 7d
DayCalls ==
  {[op |-> "scan-network", user |-> 1, type |-> "", period |-> "7d"],
   [op |-> "aggregate-activity", user |-> 1, type |-> "", period |-> "7d"],
   [op |-> "network-activity", user |-> 1, type |-> "following", period |-> "7d"]}

NextDays ==
  \/ \E c \in CallIds :
       \/ \E q \in DayCalls : Start(c, q)
       \/ CallStep(c)
  \/ Tick
  \/ NextDay

SpecDays == Init /\ [][NextDays]_vars

\* source rows of a tenant, kind and hour inside the window of a period
SourceInWindow(t, kind, period, h, now) ==
  {r \in SourceRows(kind) :
     /\ r.user_id = t
     /\ r.hour_gmt = h
     /\ r.at > now - IntervalHours(period)}

\* C38: for every tenant, kind, period and hour the count getActivityByType
\* returns is at most the number of source rows of that hour in the window
C38_CountWithinSource ==
  \A t \in Tenants, kind \in ActivityTypes, period \in validReadPeriods, h \in Hours :
    getActivityByType(network_activity, t, kind, IntervalHours(period), clock)[h]
      <= Cardinality(SourceInWindow(t, kind, period, h, clock))

\* -------------------------------------- reloads whose loads are in flight
\* setInterval fires: periodicReload -> subscribeToEvents -> loadUsers sends
\* SELECT id, npub FROM users; the loads before it may still be waiting
ReloadFires ==
  /\ listener.running
  /\ Len(subs.loads) < MaxReloads + 1
  /\ subs' = [subs EXCEPT !.loads = Append(@, [pc |-> "query", ok |-> TRUE, rows |-> {}])]
  /\ UNCHANGED <<earlyVars, accounts, fetch>>

\* the store runs the query of load i, or fails it
LoadQuery(i, ok) ==
  /\ i \in 1..Len(subs.loads)
  /\ subs.loads[i].pc = "query"
  /\ subs' = [subs EXCEPT !.loads[i] =
                [pc |-> "answered", ok |-> ok,
                 rows |-> IF ok THEN IdAndNpub(accounts.rows) ELSE {}]]
  /\ UNCHANGED <<earlyVars, accounts, fetch>>

\* what subscribeToEvents does with the npubs of load i: nothing when there
\* are none or none decodes, else unsub every handle and subscribe three times
Resubscribed(i, npubs) ==
  LET pubkeys == {npubToHex(n) : n \in npubs} \ {"null"} IN
  IF npubs = {} \/ pubkeys = {}
    THEN [subs EXCEPT !.loads[i].pc = "done"]
    ELSE [subs EXCEPT !.loads[i].pc = "done",
                      !.unsubbed = @ \cup {x.id : x \in subs.activeSubscriptions},
                      !.activeSubscriptions = NewSubscriptions(subs.created, pubkeys, i),
                      !.created = @ + 3]

\* the answer of load i reaches the listener: loadUsers rewrites the map (or
\* catches the error and returns []), subscribeToEvents goes on
LoadAnswered(i) ==
  LET load == subs.loads[i]
      npubs == IF load.ok THEN DOMAIN MapOf(load.rows) ELSE {}
      after == Resubscribed(i, npubs)
  IN
  /\ i \in 1..Len(subs.loads)
  /\ load.pc = "answered"
  /\ userNpubs' = IF load.ok THEN MapOf(load.rows) ELSE userNpubs
  /\ subs' = IF load.ok THEN [after EXCEPT !.mapLoad = i] ELSE after
  /\ listener' =
       IF after.created # subs.created
         THEN [listener EXCEPT !.pubkeys = Pubkeys(MapOf(load.rows)), !.opened = @ + 1]
         ELSE listener
  /\ UNCHANGED <<storeVars, apiVars, handlers, http, results,
                 gateVars, cacheVars, zoneVars, bestVars, accounts, fetch>>

LoadIds == 1..(MaxReloads + 1)

\* tenants register while the listener of a fresh deployment reloads
NextSubscribe ==
  \/ ReloadFires
  \/ \E i \in LoadIds, ok \in BOOLEAN : LoadQuery(i, ok)
  \/ \E i \in LoadIds : LoadAnswered(i)
  \/ \E npub \in {Npub("N1"), HexText("N2")} : Register(npub, "u1", "")

SpecSubscribe == InitFresh /\ [][NextSubscribe]_vars

\* C39: the listener holds no subscription or one of each kind, every handle
\* created before them has been unsubscribed, and the filter of the active
\* ones comes from the load that wrote the current pubkey-to-tenant map
C39_SubscriptionsOfCurrentMap ==
  /\ \/ subs.activeSubscriptions = {}
     \/ /\ Cardinality(subs.activeSubscriptions) = 3
        /\ {x.kind : x \in subs.activeSubscriptions} = SubKinds
  /\ \A id \in 1..subs.created :
       id \in {x.id : x \in subs.activeSubscriptions} \/ id \in subs.unsubbed
  /\ {x.id : x \in subs.activeSubscriptions} \cap subs.unsubbed = {}
  /\ \A x \in subs.activeSubscriptions :
       /\ x.load = subs.mapLoad
       /\ x.pubkeys = Pubkeys(userNpubs)

\* ------------------------------------------ rateLimit when the store fails
\* a catch that answers 429 instead of calling next()
RateRefusing(r, at) == [r EXCEPT !.failedAt = at, !.status = 429, !.pc = "done"]

\* rateLimit's catch: console.error, next(); the headers are set only after
\* the increment has returned
RateCaught(r, at) == [r EXCEPT !.failedAt = at, !.pc = "handler"]

\* the usage read or the usage increment throws
RateFail(i) ==
  /\ reqs[i].pc \in {"rate_read", "rate_incr"}
  /\ reqs' = [reqs EXCEPT ![i] = RateCaught(reqs[i], reqs[i].pc)]
  /\ UNCHANGED <<offGate, clock, api_tokens, api_usage>>

\* requests to rate-limited routes, one after the other, on a store that
\* may fail
NextRateFail ==
  \E i \in RequestIds :
       \/ \E q \in RateRequests :
            ArriveNext(i, <<"Bearer", RegToken(q[1])>>, q[2])
       \/ AuthToken(i)
       \/ AuthUser(i)
       \/ AuthTouch(i)
       \/ RateRead(i)
       \/ RateIncr(i)
       \/ RateFail(i)
       \/ Handle(i)

SpecRateFail == Init /\ [][NextRateFail]_vars

\* a request whose rate-limit query failed goes to its handler with no 429
\* and no rate-limit header; a refused request has not run and set no header
C40_Open ==
  \A i \in RequestIds :
    LET r == reqs[i] IN
      /\ r.failedAt # "" =>
           /\ r.pc \in {"handler", "done"}
           /\ r.status # 429
           /\ r.headers = NoRateHeaders
           /\ r.pc = "done" => r.ran /\ r.status = 200
      /\ r.status = 429 =>
           /\ r.pc = "done"
           /\ ~r.ran
           /\ r.headers = NoRateHeaders
           /\ r.counted = 0

\* the step that refuses a request, and every step of a refused request,
\* leaves api_usage as it is; so does the step of a failing query
C40_Step ==
  \A i \in RequestIds :
    /\ reqs'[i].status = 429 /\ reqs'[i] # reqs[i] => api_usage' = api_usage
    /\ reqs'[i].failedAt # reqs[i].failedAt => api_usage' = api_usage

\* C40: the rate limiter fails open (a failed usage read or increment sends
\* the request to its handler without 429 and without headers), and a request
\* answered 429 never increments the usage counter
C40_FailsOpen == []C40_Open /\ [][C40_Step]_vars

\* a request passed its handler after its usage read failed and another after
\* its increment failed, neither counted
C40_Witness ==
  \E i, j \in RequestIds :
    /\ reqs[i].failedAt = "rate_read" /\ reqs[i].ran /\ reqs[i].status = 200
    /\ reqs[j].failedAt = "rate_incr" /\ reqs[j].ran /\ reqs[j].status = 200
    /\ reqs[i].headers = NoRateHeaders /\ reqs[j].headers = NoRateHeaders
    /\ TotalUsage(api_usage, reqs[i].user, reqs[i].windowStart) = 0
    /\ TotalUsage(api_usage, reqs[j].user, reqs[j].windowStart) = 0

====
